---- MODULE Spec2Model ----
(***************************************************************************)
(* Debt payoff simulator of wealthwatch (services/debtPayoff.ts, kept in   *)
(* src/server/src/providers/IFinancialProvider.ts): calculatePayoff as a   *)
(* state machine, one step per iteration of its month loop.                *)
(*                                                                         *)
(* Money is a JavaScript number in the source.  Here it is fixed point:    *)
(* an integer count of 1/UnitsPerDollar dollars; the one inexact operation *)
(* of the loop, balance * (rate/100/12), is rounded to the nearest unit.   *)
(* Rates are whole percents.  A debt's name is carried through the source  *)
(* unchanged and read by nothing, so it is left out of the records.        *)
(***************************************************************************)
EXTENDS Integers, Sequences, FiniteSets, TLC

UnitsPerDollar == 10000

\* 0.01, the balance at or below which a debt counts as paid off
Eps == UnitsPerDollar \div 100

\* const maxMonths = 360
maxMonths == 360

\* most debts in one call
MaxDebts == 3

Dollars(n) == n * UnitsPerDollar

Min(a, b) == IF a <= b THEN a ELSE b
Max(a, b) == IF a >= b THEN a ELSE b

Strategies == {"avalanche", "snowball"}

(* DebtInput values the calls are made with: rate in [0,100], balance >= 0, *)
(* minimum >= 0.  "S" is the spec's scenario 1, "A" and "B" its scenario 2, *)
(* "Z" is already at a balance <= 0.01 on input, "N" has a minimum smaller  *)
(* than its monthly interest.                                               *)
DebtCatalog ==
    { [id |-> "S", balance |-> Dollars(1200), rate |-> 24, minimum |-> Dollars(50)],
      [id |-> "A", balance |-> Dollars(500),  rate |-> 20, minimum |-> Dollars(25)],
      [id |-> "B", balance |-> Dollars(3000), rate |-> 5,  minimum |-> Dollars(60)],
      [id |-> "Z", balance |-> Eps \div 2,    rate |-> 10, minimum |-> Dollars(40)],
      [id |-> "N", balance |-> Dollars(1000), rate |-> 1,  minimum |-> 0] }

ExtraChoices == {0, Dollars(30), Dollars(100)}

Ids(ds) == {ds[i].id : i \in 1..Len(ds)}

DebtLists ==
    {ds \in UNION {[1..n -> DebtCatalog] : n \in 1..MaxDebts} :
        Cardinality(Ids(ds)) = Len(ds)}

VARIABLES
    debts,              \* argument debts
    strategy,           \* argument strategy
    extraMonthly,       \* argument extraMonthly
    pc,                 \* "start", "loop" or "done"
    sorted,             \* const sorted
    balances,           \* const balances: working balance by id
    schedule,           \* schedule, without the per-debt entries of each month
    payoffOrder,        \* payoffOrder
    totalInterestPaid,
    totalPaid,
    month,
    monthDebts,         \* monthDebts of the last simulated month
    extraBudget,        \* extraBudget of the last month after the freed minimums were added
    extraLeft,          \* extraBudget of the last month after the second pass
    startBalances       \* balances as they were when the last month began

payoffVars == <<debts, strategy, extraMonthly, pc, sorted, balances, schedule,
                payoffOrder, totalInterestPaid, totalPaid, month, monthDebts,
                extraBudget, extraLeft, startBalances>>

\* no call of calculatePayoff is being followed step by step
PayoffIdle ==
    /\ debts = <<>>
    /\ strategy = "avalanche"
    /\ extraMonthly = 0
    /\ pc = "idle"
    /\ sorted = <<>>
    /\ balances = <<>>
    /\ schedule = <<>>
    /\ payoffOrder = <<>>
    /\ totalInterestPaid = 0
    /\ totalPaid = 0
    /\ month = 0
    /\ monthDebts = <<>>
    /\ extraBudget = 0
    /\ extraLeft = 0
    /\ startBalances = <<>>

\* compareStrategies(debts, extraMonthly)
VARIABLES
    cmpPc,              \* "call", "avalanche", "snowball" or "done"
    cmpArgs,            \* the arguments as they were passed
    cmpDebts,           \* the array debts as it is now
    cmpAvalanche,       \* const avalanche
    cmpSnowball,        \* const snowball
    cmpResult           \* the returned object

compareVars == <<cmpPc, cmpArgs, cmpDebts, cmpAvalanche, cmpSnowball, cmpResult>>

\* no call of compareStrategies is being followed
CompareIdle ==
    /\ cmpPc = "idle"
    /\ cmpArgs = <<>>
    /\ cmpDebts = <<>>
    /\ cmpAvalanche = <<>>
    /\ cmpSnowball = <<>>
    /\ cmpResult = <<>>

\* the debt routes and the two debt projection routes
VARIABLES
    dbDebts,            \* the rows prisma.debt holds for the user
    routeRequest,       \* the last request: its route and req.body
    routeCall,          \* the call the last request made to the payoff service
    routeResponse       \* the response to the last request

routeVars == <<dbDebts, routeRequest, routeCall, routeResponse>>

NoCall == [fn |-> "none", debts |-> <<>>, strategy |-> "", extraMonthly |-> 0]

NoRequest ==
    [route |-> "", strategy |-> "", extraMonthly |-> <<>>, customDebts |-> <<>>]

NoResponse == [status |-> 0, result |-> "", message |-> ""]

\* an empty database and no request served yet
RouteIdle ==
    /\ dbDebts = <<>>
    /\ routeRequest = NoRequest
    /\ routeCall = NoCall
    /\ routeResponse = NoResponse

\* calculateHealthScore(input)
VARIABLES
    hsPc,               \* "call", "scores", "overall", "recommendations" or "done"
    hsInput,            \* argument input
    hsRates,            \* savingsRate, dti, emergencyMonths, investmentRate
    hsScores,           \* the five sub-scores
    hsOverall,          \* overallScore and grade
    hsRecommendations,  \* const recommendations
    hsResult            \* the returned object

healthVars == <<hsPc, hsInput, hsRates, hsScores, hsOverall, hsRecommendations, hsResult>>

\* no call of calculateHealthScore is being followed
HealthIdle ==
    /\ hsPc = "idle"
    /\ hsInput = <<>>
    /\ hsRates = <<>>
    /\ hsScores = <<>>
    /\ hsOverall = <<>>
    /\ hsRecommendations = <<>>
    /\ hsResult = <<>>

\* forecastCashFlow(currentBalance, recurringIncome, recurringExpenses, days)
VARIABLES
    fcPc,               \* "loop" or "done"
    fcArgs,             \* the four arguments
    fcClock,            \* the server's clock and time zone at new Date()
    fcD,                \* loop variable d
    fcBalance,          \* let balance
    fcForecast          \* const forecast

forecastVars == <<fcPc, fcArgs, fcClock, fcD, fcBalance, fcForecast>>

\* no call of forecastCashFlow is being followed
ForecastIdle ==
    /\ fcPc = "idle"
    /\ fcArgs = <<>>
    /\ fcClock = <<>>
    /\ fcD = 0
    /\ fcBalance = 0
    /\ fcForecast = <<>>

\* POST /api/projections/investment-growth
VARIABLES
    igPc,               \* "request", "projection", "trials", "percentiles", "respond", "done"
    igBody,             \* req.body and the user's investments in the database
    igParams,           \* years, annualReturnPct, currentBalance, monthlyAdd
    igIndex,            \* the loop variable of the loop being run: year, i or y
    igBalance,          \* let balance
    igTotalContributions,
    igProjection,       \* const projection
    igRandom,           \* the state of the generator behind Math.random()
    igRuns,             \* conservativeRuns, moderateRuns, aggressiveRuns
    igMonteCarlo        \* const monteCarlo

growthVars == <<igPc, igBody, igParams, igIndex, igBalance, igTotalContributions,
                igProjection, igRandom, igRuns, igMonteCarlo>>

\* no investment-growth request is being followed
GrowthIdle ==
    /\ igPc = "idle"
    /\ igBody = <<>>
    /\ igParams = <<>>
    /\ igIndex = 0
    /\ igBalance = 0
    /\ igTotalContributions = 0
    /\ igProjection = <<>>
    /\ igRandom = 0
    /\ igRuns = <<>>
    /\ igMonteCarlo = <<>>

\* State that outlives a call, and what the callers of project and score saw
VARIABLES
    puRandom,     \* state of the generator behind Math.random()
    puFirst,      \* the first call of project or score: input and output
    puFirstRandom,\* the generator's state when the first call was made
    puLast        \* the latest call of project or score after the first

pureVars == <<puRandom, puFirst, puFirstRandom, puLast>>

PureIdle == puRandom = 0 /\ puFirst = <<>> /\ puFirstRandom = 0 /\ puLast = <<>>

\* POST /login and the AccountLockoutTracker, for one email address
VARIABLES
    lkUser,             \* whether prisma.user.findUnique finds a user for the email
    lkAttempts,         \* the tracker's entry of the email
    lkNow,              \* Date.now(), in ticks of MinutesPerTick minutes
    lkRequests,         \* login requests in flight: where each handler stands
    lkComparedLocked,   \* a password was given to bcrypt.compare during a lockout
    lkSucceededLocked   \* a login succeeded during a lockout

loginVars ==
    <<lkUser, lkAttempts, lkNow, lkRequests, lkComparedLocked, lkSucceededLocked>>

LoginIdle ==
    /\ lkUser = FALSE
    /\ lkAttempts = <<>>
    /\ lkNow = 0
    /\ lkRequests = <<>>
    /\ lkComparedLocked = FALSE
    /\ lkSucceededLocked = FALSE

\* The transactions of one account, its balance, and the requests that
\* change them
VARIABLES
    txOpening,    \* the balance the account was created with
    txBalance,    \* account.balance
    txStored,     \* the transaction rows of the account, by id
    txCreated,    \* how many rows were ever created; ids are not reused
    txStarted,    \* how many requests were started
    txHandlers    \* the handlers in flight: their position and local variables

txVars == <<txOpening, txBalance, txStored, txCreated, txStarted, txHandlers>>

TxIdle ==
    /\ txOpening = 0
    /\ txBalance = 0
    /\ txStored = <<>>
    /\ txCreated = 0
    /\ txStarted = 0
    /\ txHandlers = <<>>

\* A client holding an API key, and the middleware stack its requests pass
VARIABLES
    akPermissions,  \* record.permissions.split(',') of the client's key
    akActive,       \* the key is active and not expired
    akStore,        \* the session store's entry for the client's cookie
    akCookie,       \* the client holds a fincmd.sid cookie
    akCsrfKnown,    \* the client has read its session's token from X-CSRF-Token
    akLast          \* the latest request and the status it was answered with

apiKeyVars == <<akPermissions, akActive, akStore, akCookie, akCsrfKnown, akLast>>

ApiKeyIdle ==
    /\ akPermissions = <<>>
    /\ akActive = FALSE
    /\ akStore = <<>>
    /\ akCookie = FALSE
    /\ akCsrfKnown = FALSE
    /\ akLast = <<>>

\* The RateLimiterStore and the checks made on it
VARIABLES
    rlConfig,   \* the RateLimitConfig the middleware was built with
    rlEntries,  \* this.entries, by key
    rlNow,      \* Date.now(), in ticks
    rlLog       \* the checks made so far: key, time and the result returned

rateVars == <<rlConfig, rlEntries, rlNow, rlLog>>

RateIdle == rlConfig = <<>> /\ rlEntries = <<>> /\ rlNow = 0 /\ rlLog = <<>>

\* A debt-payoff request carrying custom debts, and the call it makes
VARIABLES
    cdItems,     \* req.body.customDebts
    cdStrategy,  \* req.body.strategy
    cdExtra,     \* safeExtra
    cdPc,        \* "start", "loop" or "done"
    cdRun        \* the state of calculatePayoff between two months

customVars == <<cdItems, cdStrategy, cdExtra, cdPc, cdRun>>

CustomIdle ==
    cdItems = <<>> /\ cdStrategy = "" /\ cdExtra = 0 /\ cdPc = "" /\ cdRun = <<>>

vars ==
    <<payoffVars, compareVars, routeVars, healthVars, forecastVars,
    growthVars, pureVars, loginVars, txVars, apiKeyVars, rateVars,
    customVars>>

nonPayoffVars ==
    <<compareVars, routeVars, healthVars, forecastVars, growthVars,
    pureVars, loginVars, txVars, apiKeyVars, rateVars, customVars>>

NonPayoffIdle ==
    CompareIdle /\ RouteIdle /\ HealthIdle /\ ForecastIdle /\ GrowthIdle /\
    PureIdle /\ LoginIdle /\ TxIdle /\ ApiKeyIdle /\ RateIdle /\ CustomIdle

nonCompareVars ==
    <<payoffVars, routeVars, healthVars, forecastVars, growthVars, pureVars,
    loginVars, txVars, apiKeyVars, rateVars, customVars>>

NonCompareIdle ==
    PayoffIdle /\ RouteIdle /\ HealthIdle /\ ForecastIdle /\ GrowthIdle /\
    PureIdle /\ LoginIdle /\ TxIdle /\ ApiKeyIdle /\ RateIdle /\ CustomIdle

nonRouteVars ==
    <<payoffVars, compareVars, healthVars, forecastVars, growthVars,
    pureVars, loginVars, txVars, apiKeyVars, rateVars, customVars>>

NonRouteIdle ==
    PayoffIdle /\ CompareIdle /\ HealthIdle /\ ForecastIdle /\ GrowthIdle /\
    PureIdle /\ LoginIdle /\ TxIdle /\ ApiKeyIdle /\ RateIdle /\ CustomIdle

nonHealthVars ==
    <<payoffVars, compareVars, routeVars, forecastVars, growthVars,
    pureVars, loginVars, txVars, apiKeyVars, rateVars, customVars>>

NonHealthIdle ==
    PayoffIdle /\ CompareIdle /\ RouteIdle /\ ForecastIdle /\ GrowthIdle /\
    PureIdle /\ LoginIdle /\ TxIdle /\ ApiKeyIdle /\ RateIdle /\ CustomIdle

nonForecastVars ==
    <<payoffVars, compareVars, routeVars, healthVars, growthVars, pureVars,
    loginVars, txVars, apiKeyVars, rateVars, customVars>>

NonForecastIdle ==
    PayoffIdle /\ CompareIdle /\ RouteIdle /\ HealthIdle /\ GrowthIdle /\
    PureIdle /\ LoginIdle /\ TxIdle /\ ApiKeyIdle /\ RateIdle /\ CustomIdle

nonGrowthVars ==
    <<payoffVars, compareVars, routeVars, healthVars, forecastVars,
    pureVars, loginVars, txVars, apiKeyVars, rateVars, customVars>>

NonGrowthIdle ==
    PayoffIdle /\ CompareIdle /\ RouteIdle /\ HealthIdle /\ ForecastIdle /\
    PureIdle /\ LoginIdle /\ TxIdle /\ ApiKeyIdle /\ RateIdle /\ CustomIdle

nonPureVars ==
    <<payoffVars, compareVars, routeVars, healthVars, forecastVars,
    growthVars, loginVars, txVars, apiKeyVars, rateVars, customVars>>

NonPureIdle ==
    PayoffIdle /\ CompareIdle /\ RouteIdle /\ HealthIdle /\ ForecastIdle /\
    GrowthIdle /\ LoginIdle /\ TxIdle /\ ApiKeyIdle /\ RateIdle /\
    CustomIdle

nonLoginVars ==
    <<payoffVars, compareVars, routeVars, healthVars, forecastVars,
    growthVars, pureVars, txVars, apiKeyVars, rateVars, customVars>>

NonLoginIdle ==
    PayoffIdle /\ CompareIdle /\ RouteIdle /\ HealthIdle /\ ForecastIdle /\
    GrowthIdle /\ PureIdle /\ TxIdle /\ ApiKeyIdle /\ RateIdle /\ CustomIdle

nonTxVars ==
    <<payoffVars, compareVars, routeVars, healthVars, forecastVars,
    growthVars, pureVars, loginVars, apiKeyVars, rateVars, customVars>>

NonTxIdle ==
    PayoffIdle /\ CompareIdle /\ RouteIdle /\ HealthIdle /\ ForecastIdle /\
    GrowthIdle /\ PureIdle /\ LoginIdle /\ ApiKeyIdle /\ RateIdle /\
    CustomIdle

nonApiKeyVars ==
    <<payoffVars, compareVars, routeVars, healthVars, forecastVars,
    growthVars, pureVars, loginVars, txVars, rateVars, customVars>>

NonApiKeyIdle ==
    PayoffIdle /\ CompareIdle /\ RouteIdle /\ HealthIdle /\ ForecastIdle /\
    GrowthIdle /\ PureIdle /\ LoginIdle /\ TxIdle /\ RateIdle /\ CustomIdle

nonRateVars ==
    <<payoffVars, compareVars, routeVars, healthVars, forecastVars,
    growthVars, pureVars, loginVars, txVars, apiKeyVars, customVars>>

NonRateIdle ==
    PayoffIdle /\ CompareIdle /\ RouteIdle /\ HealthIdle /\ ForecastIdle /\
    GrowthIdle /\ PureIdle /\ LoginIdle /\ TxIdle /\ ApiKeyIdle /\
    CustomIdle

nonCustomVars ==
    <<payoffVars, compareVars, routeVars, healthVars, forecastVars,
    growthVars, pureVars, loginVars, txVars, apiKeyVars, rateVars>>

NonCustomIdle ==
    PayoffIdle /\ CompareIdle /\ RouteIdle /\ HealthIdle /\ ForecastIdle /\
    GrowthIdle /\ PureIdle /\ LoginIdle /\ TxIdle /\ ApiKeyIdle /\ RateIdle

RECURSIVE SumNum(_)
\* reduce((s, b) => s + b, 0)
SumNum(s) == IF s = <<>> THEN 0 ELSE Head(s) + SumNum(Tail(s))

\* (a, b) => strategy === 'avalanche' ? b.rate - a.rate : a.balance - b.balance
Compare(a, b, strat) ==
    IF strat = "avalanche" THEN b.rate - a.rate ELSE a.balance - b.balance

RECURSIVE InsertSorted(_, _, _)
\* Array.prototype.sort is stable: d goes before the first element it compares below
InsertSorted(srt, d, strat) ==
    IF srt = <<>> THEN <<d>>
    ELSE IF Compare(d, Head(srt), strat) < 0 THEN <<d>> \o srt
    ELSE <<Head(srt)>> \o InsertSorted(Tail(srt), d, strat)

RECURSIVE SortPrefix(_, _, _)
SortPrefix(ds, n, strat) ==
    IF n = 0 THEN <<>> ELSE InsertSorted(SortPrefix(ds, n - 1, strat), ds[n], strat)

\* [...debts].sort(...)
SortDebts(ds, strat) == SortPrefix(ds, Len(ds), strat)

\* for (const d of sorted) balances[d.id] = d.balance
RECURSIVE FillBalances(_, _, _)
FillBalances(srt, i, bal) ==
    IF i > Len(srt) THEN bal
    ELSE FillBalances(srt, i + 1,
            [x \in DOMAIN bal \cup {srt[i].id} |->
                IF x = srt[i].id THEN srt[i].balance ELSE bal[x]])

InitialBalances(srt) == FillBalances(srt, 1, <<>>)

\* sorted.filter(d => balances[d.id] > 0.01)
Remaining(srt, bal) == SelectSeq(srt, LAMBDA d : bal[d.id] > Eps)

\* FreedMinimums counting only the debts at a balance of exactly 0
FreedMinimumsAtZero(srt, bal) ==
    LET paid == SelectSeq(srt, LAMBDA d : bal[d.id] = 0)
    IN  SumNum([i \in 1..Len(paid) |-> paid[i].minimum])

\* sorted.filter(d => balances[d.id] <= 0.01).reduce((s, d) => s + d.minimum, 0)
FreedMinimums(srt, bal) ==
    LET paid == SelectSeq(srt, LAMBDA d : bal[d.id] <= Eps)
    IN  SumNum([i \in 1..Len(paid) |-> paid[i].minimum])

\* bal * (d.rate / 100 / 12), to the nearest unit
Interest(bal, rate) == (bal * rate + 600) \div 1200

\* Math.min(d.minimum, bal + interest)
MinPayment(d, bal, interest) == Min(d.minimum, bal + interest)

\* first pass: one entry per remaining debt
FirstPass(rem, bal) ==
    [i \in 1..Len(rem) |->
        LET d == rem[i]
            b == bal[d.id]
            interest == Interest(b, d.rate)
            minPayment == MinPayment(d, b, interest)
        IN  [id |-> d.id, balance |-> b, payment |-> minPayment,
             interest |-> interest, principal |-> minPayment - interest]]

\* monthDebts.find(m => m.id === d.id): its index, 0 when there is none
FindEntry(md, id) ==
    IF \E k \in 1..Len(md) : md[k].id = id
    THEN CHOOSE k \in 1..Len(md) :
            md[k].id = id /\ \A j \in 1..(k - 1) : md[j].id # id
    ELSE 0

\* Math.min(extraBudget, entry.balance + entry.interest - entry.payment + 0.01)
MaxExtra(budget, entry) ==
    Min(budget, entry.balance + entry.interest - entry.payment + Eps)

\* PayExtra without entry.principal += maxExtra
PayExtraPaymentOnly(entry, maxExtra) ==
    [entry EXCEPT !.payment = @ + maxExtra]

\* PayExtra with entry.payment = maxExtra in place of +=
PayExtraReplacing(entry, maxExtra) ==
    [entry EXCEPT !.payment = maxExtra, !.principal = maxExtra - entry.interest]

\* entry.payment += maxExtra; entry.principal += maxExtra
PayExtra(entry, maxExtra) ==
    [entry EXCEPT !.payment = @ + maxExtra, !.principal = @ + maxExtra]

RECURSIVE SecondPassNoBreak(_, _, _, _, _)
\* SecondPass without its break: what is left of the budget goes on to the next debt
SecondPassNoBreak(srt, i, bal, md, budget) ==
    IF i > Len(srt) THEN [debts |-> md, extraBudget |-> budget]
    ELSE IF bal[srt[i].id] <= Eps \/ budget <= 0
         THEN SecondPassNoBreak(srt, i + 1, bal, md, budget)
    ELSE LET k == FindEntry(md, srt[i].id) IN
         IF k = 0 THEN SecondPassNoBreak(srt, i + 1, bal, md, budget)
         ELSE LET maxExtra == MaxExtra(budget, md[k]) IN
              IF maxExtra > 0
              THEN SecondPassNoBreak(srt, i + 1, bal,
                        [md EXCEPT ![k] = PayExtra(md[k], maxExtra)],
                        budget - maxExtra)
              ELSE SecondPassNoBreak(srt, i + 1, bal, md, budget)

\* SecondPass paying the extra to sorted[0], outstanding or not
SecondPassFirstOnly(srt, i, bal, md, budget) ==
    LET k == FindEntry(md, srt[1].id) IN
    IF budget <= 0 \/ k = 0 THEN [debts |-> md, extraBudget |-> budget]
    ELSE LET maxExtra == MaxExtra(budget, md[k]) IN
         [debts |-> [md EXCEPT ![k] = PayExtra(md[k], maxExtra)],
          extraBudget |-> budget - maxExtra]

RECURSIVE SecondPass(_, _, _, _, _)
\* second pass, from sorted[i] on: the entries and the budget it leaves
SecondPass(srt, i, bal, md, budget) ==
    IF i > Len(srt) THEN [debts |-> md, extraBudget |-> budget]
    ELSE IF bal[srt[i].id] <= Eps \/ budget <= 0
         THEN SecondPass(srt, i + 1, bal, md, budget)
    ELSE LET k == FindEntry(md, srt[i].id) IN
         IF k = 0 THEN SecondPass(srt, i + 1, bal, md, budget)
         ELSE LET maxExtra == MaxExtra(budget, md[k]) IN
              IF maxExtra > 0
              THEN [debts |-> [md EXCEPT ![k] = PayExtra(md[k], maxExtra)],
                    extraBudget |-> budget - maxExtra]
              ELSE [debts |-> md, extraBudget |-> budget]

\* NewBalance leaving the interest out
NewBalanceNoInterest(entry) == Max(0, entry.balance - entry.payment)

\* NewBalance adding the payment
NewBalanceAdding(entry) == Max(0, entry.balance + entry.interest + entry.payment)

\* Math.max(0, entry.balance + entry.interest - entry.payment)
NewBalance(entry) == Max(0, entry.balance + entry.interest - entry.payment)

\* payoffOrder.find(p => p.id === entry.id)
InPayoffOrder(order, id) == \E k \in 1..Len(order) : order[k].id = id

\* RecordPayoff with the month before
RecordPayoffStaleMonth(order, id, bal, m) ==
    IF bal <= Eps /\ ~InPayoffOrder(order, id)
    THEN Append(order, [id |-> id, payoffMonth |-> m - 1])
    ELSE order

\* balances[entry.id] <= 0.01 && !payoffOrder.find(...): push the entry
RecordPayoff(order, id, bal, m) ==
    IF bal <= Eps /\ ~InPayoffOrder(order, id)
    THEN Append(order, [id |-> id, payoffMonth |-> m])
    ELSE order

RECURSIVE ApplyPayments(_, _, _)
\* third pass, from monthDebts[k] on
ApplyPayments(k, m, acc) ==
    IF k > Len(acc.debts) THEN acc
    ELSE LET entry == acc.debts[k]
             nb == NewBalance(entry)
         IN  ApplyPayments(k + 1, m,
                [balances |-> [acc.balances EXCEPT ![entry.id] = nb],
                 debts |-> [acc.debts EXCEPT ![k].balance = nb],
                 payoffOrder |-> RecordPayoff(acc.payoffOrder, entry.id, nb, m),
                 totalPayment |-> acc.totalPayment + entry.payment,
                 totalInterest |-> acc.totalInterest + entry.interest])

\* Object.values(balances).reduce((s, b) => s + b, 0)
RECURSIVE SumValues(_, _)
SumValues(bal, ids) ==
    IF ids = {} THEN 0
    ELSE LET x == CHOOSE y \in ids : TRUE IN bal[x] + SumValues(bal, ids \ {x})

TotalBalance(bal) == SumValues(bal, DOMAIN bal)

\* LoopContinues with month <= maxMonths
LoopContinuesOneMore(srt, bal, m) == m <= maxMonths /\ Len(Remaining(srt, bal)) # 0

\* the while condition and the break: another month is simulated
LoopContinues(srt, bal, m) == m < maxMonths /\ Len(Remaining(srt, bal)) # 0

\* the state of one call between two iterations of the month loop
RunState(srt, bal) ==
    [sorted |-> srt, balances |-> bal, schedule |-> <<>>, payoffOrder |-> <<>>,
     totalInterestPaid |-> 0, totalPaid |-> 0, month |-> 0, monthDebts |-> <<>>,
     extraBudget |-> 0, extraLeft |-> 0, startBalances |-> bal]

\* lines 125-139
StartRun(ds, strat) ==
    LET srt == SortDebts(ds, strat) IN RunState(srt, InitialBalances(srt))

\* the body of the month loop, run with the debts in the order srt
MonthBody(st, srt, extra) ==
    LET m == st.month + 1
        budget == extra + FreedMinimums(srt, st.balances)
        first == FirstPass(Remaining(srt, st.balances), st.balances)
        second == SecondPass(srt, 1, st.balances, first, budget)
        third == ApplyPayments(1, m,
                    [balances |-> st.balances, debts |-> second.debts,
                     payoffOrder |-> st.payoffOrder, totalPayment |-> 0,
                     totalInterest |-> 0])
    IN  [sorted |-> st.sorted,
         balances |-> third.balances,
         schedule |-> Append(st.schedule,
                        [month |-> m,
                         totalBalance |-> TotalBalance(third.balances),
                         totalPayment |-> third.totalPayment,
                         totalInterest |-> third.totalInterest]),
         payoffOrder |-> third.payoffOrder,
         totalInterestPaid |-> st.totalInterestPaid + third.totalInterest,
         totalPaid |-> st.totalPaid + third.totalPayment,
         month |-> m,
         monthDebts |-> third.debts,
         extraBudget |-> budget,
         extraLeft |-> second.extraBudget,
         startBalances |-> st.balances]

RECURSIVE ResortByBalance(_, _, _)
\* the first n debts of srt by ascending working balance
ResortByBalance(srt, n, bal) ==
    IF n = 0 THEN <<>>
    ELSE LET rest == ResortByBalance(srt, n - 1, bal)
             d == srt[n]
         IN  SelectSeq(rest, LAMBDA x : bal[x.id] <= bal[d.id]) \o <<d>> \o
             SelectSeq(rest, LAMBDA x : bal[x.id] > bal[d.id])

\* SimulateMonth sorting the debts again, by working balance, every month
SimulateMonthResorting(st, extra) ==
    MonthBody(st, ResortByBalance(st.sorted, Len(st.sorted), st.balances), extra)

\* one iteration of the month loop: the body, with the order of const sorted
SimulateMonth(st, extra) == MonthBody(st, st.sorted, extra)

RECURSIVE RunLoop(_, _, _)
\* the month loop from st on, for at most n iterations; the iterations are
\* split in halves to keep the evaluation shallow
RunLoop(st, extra, n) ==
    IF ~LoopContinues(st.sorted, st.balances, st.month) THEN st
    ELSE IF n = 1 THEN SimulateMonth(st, extra)
    ELSE RunLoop(RunLoop(st, extra, n \div 2), extra, n - n \div 2)

\* calculatePayoff(debts, strategy, extraMonthly), as the state its loop ends in
CalculatePayoff(ds, strat, extra) == RunLoop(StartRun(ds, strat), extra, maxMonths + 1)

Current ==
    [sorted |-> sorted, balances |-> balances, schedule |-> schedule,
     payoffOrder |-> payoffOrder, totalInterestPaid |-> totalInterestPaid,
     totalPaid |-> totalPaid, month |-> month, monthDebts |-> monthDebts,
     extraBudget |-> extraBudget, extraLeft |-> extraLeft,
     startBalances |-> startBalances]

Assign(st) ==
    /\ sorted' = st.sorted
    /\ balances' = st.balances
    /\ schedule' = st.schedule
    /\ payoffOrder' = st.payoffOrder
    /\ totalInterestPaid' = st.totalInterestPaid
    /\ totalPaid' = st.totalPaid
    /\ month' = st.month
    /\ monthDebts' = st.monthDebts
    /\ extraBudget' = st.extraBudget
    /\ extraLeft' = st.extraLeft
    /\ startBalances' = st.startBalances

Init ==
    /\ debts \in DebtLists
    /\ strategy \in Strategies
    /\ extraMonthly \in ExtraChoices
    /\ pc = "start"
    /\ sorted = <<>>
    /\ balances = <<>>
    /\ schedule = <<>>
    /\ payoffOrder = <<>>
    /\ totalInterestPaid = 0
    /\ totalPaid = 0
    /\ month = 0
    /\ monthDebts = <<>>
    /\ extraBudget = 0
    /\ extraLeft = 0
    /\ startBalances = <<>>
    /\ NonPayoffIdle

\* the call is entered: the debts are sorted and the working balances set
Start ==
    /\ pc = "start"
    /\ pc' = "loop"
    /\ Assign(StartRun(debts, strategy))
    /\ UNCHANGED <<debts, strategy, extraMonthly, nonPayoffVars>>

\* one iteration of while (month < maxMonths)
Month ==
    /\ pc = "loop"
    /\ LoopContinues(sorted, balances, month)
    /\ Assign(SimulateMonth(Current, extraMonthly))
    /\ UNCHANGED <<debts, strategy, extraMonthly, pc, nonPayoffVars>>

\* the loop is left and the result returned
Return ==
    /\ pc = "loop"
    /\ ~LoopContinues(sorted, balances, month)
    /\ pc' = "done"
    /\ UNCHANGED <<debts, strategy, extraMonthly, sorted, balances, schedule,
                   payoffOrder, totalInterestPaid, totalPaid, month, monthDebts,
                   extraBudget, extraLeft, startBalances, nonPayoffVars>>

Next == Start \/ Month \/ Return

PayoffSpec == Init /\ [][Next]_vars


(***************************************************************************)
(* Properties of calculatePayoff                                           *)
(***************************************************************************)

\* the input record of the debt with this id
DebtOf(id) == debts[CHOOSE i \in 1..Len(debts) : debts[i].id = id]

PositionIn(seq, id) == CHOOSE i \in 1..Len(seq) : seq[i].id = id

\* the debts of the order whose balance exceeded 0.01 when the last month began
Outstanding == {i \in 1..Len(sorted) : startBalances[sorted[i].id] > Eps}

\* the earliest of them, 0 when there is none
TargetIndex ==
    IF Outstanding = {} THEN 0
    ELSE CHOOSE i \in Outstanding : \A j \in Outstanding : i <= j

\* min(minimum, balance + interest) of an entry, from the balance the month began with
EntryMinimum(e) == Min(DebtOf(e.id).minimum, startBalances[e.id] + e.interest)

\* what the entry was paid above that minimum
ExtraPaid(e) == e.payment - EntryMinimum(e)

\* C1: in every simulated month only the first debt of the order that is
\* outstanding at the start of the month is paid more than
\* min(minimum, balance+interest); it receives
\* min(extraBudget, balance+interest-minPayment+0.01) more, and the rest of
\* the budget goes to no other debt.
C1_SingleExtraTarget ==
    month > 0 =>
        /\ \A k \in 1..Len(monthDebts) :
            LET e == monthDebts[k] IN
            IF TargetIndex # 0 /\ e.id = sorted[TargetIndex].id
            THEN ExtraPaid(e) =
                    Min(extraBudget,
                        startBalances[e.id] + e.interest - EntryMinimum(e) + Eps)
            ELSE ExtraPaid(e) = 0
        /\ extraLeft =
            extraBudget - SumNum([k \in 1..Len(monthDebts) |-> ExtraPaid(monthDebts[k])])

\* a month in which part of the budget was left over while another debt,
\* paid its minimum only, stayed outstanding
C1_Witness ==
    /\ month > 0
    /\ extraLeft > 0
    /\ \E k \in 1..Len(monthDebts) :
        /\ monthDebts[k].id # sorted[TargetIndex].id
        /\ ExtraPaid(monthDebts[k]) = 0
        /\ monthDebts[k].balance > Eps
    /\ \E k \in 1..Len(monthDebts) : ExtraPaid(monthDebts[k]) > 0

\* sorted lists the input debts by descending rate (avalanche) or ascending
\* input balance (snowball), equal keys in input order
IsInitialOrder ==
    /\ Len(sorted) = Len(debts)
    /\ {sorted[i] : i \in 1..Len(sorted)} = {debts[i] : i \in 1..Len(debts)}
    /\ \A i, j \in 1..Len(sorted) :
        i < j =>
            LET a == sorted[i]
                b == sorted[j]
                ka == IF strategy = "avalanche" THEN 0 - a.rate ELSE a.balance
                kb == IF strategy = "avalanche" THEN 0 - b.rate ELSE b.balance
            IN  \/ ka < kb
                \/ ka = kb /\ PositionIn(debts, a.id) < PositionIn(debts, b.id)

\* C2: the attack order is the order of the input, in every month, and the
\* debt paid extra in a month is the earliest debt of that order that is
\* outstanding when the month begins.
C2_FixedAttackOrder ==
    pc # "start" =>
        /\ IsInitialOrder
        /\ month > 0 =>
            \A k \in 1..Len(monthDebts) :
                LET e == monthDebts[k] IN
                (e.payment > EntryMinimum(e)) <=>
                    (extraBudget > 0 /\ e.id = sorted[TargetIndex].id)

\* a snowball month whose target owes more than another outstanding debt
C2_Witness ==
    /\ strategy = "snowball"
    /\ month > 0
    /\ TargetIndex # 0
    /\ \E k \in 1..Len(monthDebts) :
        /\ monthDebts[k].id = sorted[TargetIndex].id
        /\ ExtraPaid(monthDebts[k]) > 0
    /\ \E j \in Outstanding :
        startBalances[sorted[j].id] < startBalances[sorted[TargetIndex].id]

\* C3: a month's extra budget is extraMonthly plus the minimums of the debts
\* at a balance <= 0.01 when the month begins, whatever was left of the
\* budget of the month before.
C3_ExtraBudget ==
    month > 0 =>
        extraBudget =
            extraMonthly +
            SumNum([i \in 1..Len(debts) |->
                        IF startBalances[debts[i].id] <= Eps
                        THEN debts[i].minimum ELSE 0])

\* a month whose budget holds the minimum of a debt paid off on input and of
\* one paid off by the run
C3_Witness ==
    /\ month > 1
    /\ \E i \in 1..Len(debts) :
        debts[i].balance <= Eps /\ debts[i].minimum > 0
    /\ \E i \in 1..Len(debts) :
        /\ debts[i].balance > Eps
        /\ startBalances[debts[i].id] <= Eps
        /\ debts[i].minimum > 0
    /\ Outstanding # {}

OtherStrategy(strat) == IF strat = "avalanche" THEN "snowball" ELSE "avalanche"

\* C4, as claimed: with extraMonthly = 0 both strategies take the same
\* number of months, for every debt list.
C4_AsClaimed ==
    (pc = "done" /\ extraMonthly = 0) =>
        month = CalculatePayoff(debts, OtherStrategy(strategy), 0).month

\* C4, amended: with extraMonthly = 0 both strategies take the same number
\* of months for every list of at most two debts.
C4_StrategyEquivalence ==
    (pc = "done" /\ extraMonthly = 0 /\ Len(debts) <= 2) =>
        month = CalculatePayoff(debts, OtherStrategy(strategy), 0).month

\* two debts the strategies order differently, one of them paid off on
\* input so that its minimum is budget for the other
C4_Witness ==
    /\ pc = "done"
    /\ extraMonthly = 0
    /\ Len(debts) = 2
    /\ sorted # SortDebts(debts, OtherStrategy(strategy))
    /\ month > 0
    /\ extraBudget > 0

C6_MonotonicInExtra ==
    pc = "done" =>
        \A e \in ExtraChoices :
            e <= extraMonthly =>
                LET r == CalculatePayoff(debts, strategy, e)
                IN  /\ totalInterestPaid <= r.totalInterestPaid
                    /\ month <= r.month

\* a run that a smaller extraMonthly makes longer and dearer
C6_Witness ==
    /\ pc = "done"
    /\ Len(debts) >= 2
    /\ \E e \in ExtraChoices :
        /\ 0 < e /\ e < extraMonthly
        /\ LET r == CalculatePayoff(debts, strategy, e)
           IN  totalInterestPaid < r.totalInterestPaid /\ month < r.month

\* C7: no more than 360 months are simulated.  Each step of the loop
\* either simulates one more month, which happens only while month < 360
\* and a balance exceeds 0.01, or returns, which happens as soon as no
\* balance exceeds 0.01 or month 360 has been simulated; the result then
\* stands, with the debts unpaid when the cap ended the loop.
C7_Termination ==
    /\ [](month <= maxMonths)
    /\ [][/\ pc = "loop" =>
                LET owing == \E i \in DOMAIN balances : balances[i] > Eps IN
                IF owing /\ month < maxMonths
                THEN pc' = "loop" /\ month' = month + 1 /\ Len(schedule') = month'
                ELSE pc' = "done" /\ month' = month /\ balances' = balances
          /\ pc = "done" => FALSE]_vars

\* a call that returns at the cap with a debt unpaid
C7_Witness ==
    /\ pc = "done"
    /\ month = maxMonths
    /\ \E i \in DOMAIN balances : balances[i] > Eps
    /\ Len(schedule) = maxMonths

\* C8: every entry has payment = interest + principal, a month's
\* totalPayment is its totalInterest plus the principal of its entries, and
\* totalPaid and totalInterest are the sums over the months of the schedule.
C8_Conservation ==
    /\ \A k \in 1..Len(monthDebts) :
        monthDebts[k].payment = monthDebts[k].interest + monthDebts[k].principal
    /\ month > 0 =>
        schedule[Len(schedule)].totalPayment =
            schedule[Len(schedule)].totalInterest +
            SumNum([k \in 1..Len(monthDebts) |-> monthDebts[k].principal])
    /\ totalPaid = SumNum([k \in 1..Len(schedule) |-> schedule[k].totalPayment])
    /\ totalInterestPaid =
            SumNum([k \in 1..Len(schedule) |-> schedule[k].totalInterest])

\* a second or later month with an extra payment and interest
C8_Witness ==
    /\ month > 1
    /\ \E k \in 1..Len(monthDebts) : ExtraPaid(monthDebts[k]) > 0
    /\ schedule[Len(schedule)].totalInterest > 0
    /\ Len(monthDebts) >= 2

\* C9: debtPayoffOrder holds a debt at most once, with the month at whose
\* end its balance first was <= 0.01, in non-decreasing payoffMonth order.
C9_PayoffOrder ==
    /\ \A i, j \in 1..Len(payoffOrder) :
        i < j =>
            /\ payoffOrder[i].id # payoffOrder[j].id
            /\ payoffOrder[i].payoffMonth <= payoffOrder[j].payoffMonth
    /\ \A i \in 1..Len(payoffOrder) :
        LET p == payoffOrder[i] IN
        /\ p.payoffMonth \in 1..month
        /\ balances[p.id] <= Eps
        /\ DebtOf(p.id).balance > Eps
        /\ (p.payoffMonth = month) = (startBalances[p.id] > Eps)
    /\ \A i \in 1..Len(sorted) :
        (startBalances[sorted[i].id] > Eps /\ balances[sorted[i].id] <= Eps) =>
            \E k \in 1..Len(payoffOrder) :
                /\ payoffOrder[k].id = sorted[i].id
                /\ payoffOrder[k].payoffMonth = month

\* a second debt has just been paid off, months after the first
C9_Witness ==
    /\ Len(payoffOrder) >= 2
    /\ payoffOrder[Len(payoffOrder)].payoffMonth = month
    /\ payoffOrder[1].payoffMonth < month
    /\ \E i \in 1..Len(debts) : debts[i].balance <= Eps

Scenario1 ==
    /\ debts = <<[id |-> "S", balance |-> Dollars(1200), rate |-> 24,
                  minimum |-> Dollars(50)]>>
    /\ extraMonthly = 0

\* C10, as claimed: scenario 1 ends after 24 months with totalInterest > 0
\* and a balance <= 0.01.
C10_AsClaimed ==
    (Scenario1 /\ pc = "done") =>
        /\ month = 24
        /\ totalInterestPaid > 0
        /\ balances["S"] <= Eps

\* C10, amended: scenario 1 ends after 34 months with totalInterest > 0 and
\* a balance <= 0.01.
C10_Scenario1 ==
    (Scenario1 /\ pc = "done") =>
        /\ month = 34
        /\ totalInterestPaid > 0
        /\ balances["S"] <= Eps

\* scenario 1 has returned
C10_Witness == Scenario1 /\ pc = "done" /\ month > 0

\* ---------------------------------------------------------------------
\* compareStrategies
\* ---------------------------------------------------------------------

\* the object calculatePayoff returns, from the state its loop ends in
PayoffResult(st, strat) ==
    [strategy |-> strat,
     months |-> st.month,
     totalPaid |-> st.totalPaid,
     totalInterest |-> st.totalInterestPaid,
     schedule |-> st.schedule,
     debtPayoffOrder |-> st.payoffOrder]

\* the caller's array after a call that sorted it in place
DebtsSortedInPlace(ds, strat) == SortDebts(ds, strat)

\* the caller's array after calculatePayoff: the sort works on the copy [...debts]
DebtsAfterCall(ds, strat) == ds

InterestSaved(aval, snow) == snow.totalInterest - aval.totalInterest

MonthsSaved(aval, snow) == snow.months - aval.months

\* two debts of which the one with the lower rate and the lower balance is
\* all but covered by its first minimum
CoveredByMinimum ==
    <<[id |-> "H", balance |-> Dollars(3000), rate |-> 20, minimum |-> Dollars(60)],
      [id |-> "L", balance |-> Dollars(200), rate |-> 10, minimum |-> Dollars(200)]>>

CompareInit ==
    /\ cmpPc = "call"
    /\ cmpArgs \in [debts : DebtLists \cup {CoveredByMinimum},
                     extraMonthly : ExtraChoices]
    /\ cmpDebts = cmpArgs.debts
    /\ cmpAvalanche = <<>>
    /\ cmpSnowball = <<>>
    /\ cmpResult = <<>>
    /\ NonCompareIdle

\* const avalanche = calculatePayoff(debts, 'avalanche', extraMonthly)
CompareAvalanche ==
    /\ cmpPc = "call"
    /\ cmpPc' = "avalanche"
    /\ cmpAvalanche' = PayoffResult(
            CalculatePayoff(cmpDebts, "avalanche", cmpArgs.extraMonthly), "avalanche")
    /\ cmpDebts' = DebtsAfterCall(cmpDebts, "avalanche")
    /\ UNCHANGED <<cmpArgs, cmpSnowball, cmpResult, nonCompareVars>>

\* const snowball = calculatePayoff(debts, 'snowball', extraMonthly)
CompareSnowball ==
    /\ cmpPc = "avalanche"
    /\ cmpPc' = "snowball"
    /\ cmpSnowball' = PayoffResult(
            CalculatePayoff(cmpDebts, "snowball", cmpArgs.extraMonthly), "snowball")
    /\ cmpDebts' = DebtsAfterCall(cmpDebts, "snowball")
    /\ UNCHANGED <<cmpArgs, cmpAvalanche, cmpResult, nonCompareVars>>

\* the return statement
CompareReturn ==
    /\ cmpPc = "snowball"
    /\ cmpPc' = "done"
    /\ cmpResult' = [avalanche |-> cmpAvalanche,
                     snowball |-> cmpSnowball,
                     interestSaved |-> InterestSaved(cmpAvalanche, cmpSnowball),
                     monthsSaved |-> MonthsSaved(cmpAvalanche, cmpSnowball)]
    /\ UNCHANGED <<cmpArgs, cmpDebts, cmpAvalanche, cmpSnowball, nonCompareVars>>

CompareNext == CompareAvalanche \/ CompareSnowball \/ CompareReturn

CompareSpec == CompareInit /\ [][CompareNext]_vars

Scenario2 ==
    /\ cmpArgs.debts =
        <<[id |-> "A", balance |-> Dollars(500), rate |-> 20, minimum |-> Dollars(25)],
          [id |-> "B", balance |-> Dollars(3000), rate |-> 5, minimum |-> Dollars(60)]>>
    /\ cmpArgs.extraMonthly = Dollars(100)

\* the payment the debt id receives in the first month of a run
FirstMonthPayment(ds, strat, extra, id) ==
    LET m1 == SimulateMonth(StartRun(ds, strat), extra).monthDebts
        i == CHOOSE j \in 1..Len(m1) : m1[j].id = id
    IN  m1[i].payment

\* C11: compareStrategies runs calculatePayoff twice, avalanche then snowball,
\* on the same debt list, which it leaves as it was passed, and with the same
\* extra amount; interestSaved is the snowball total interest minus the
\* avalanche total interest and monthsSaved the snowball months minus the
\* avalanche months.  For A (500, 20%, minimum 25) and B (3000, 5%, minimum
\* 60) with 100 extra the avalanche run targets A first, and interestSaved
\* is not negative.
C11_CompareStrategies ==
    /\ cmpPc \in {"avalanche", "snowball", "done"} =>
        /\ cmpDebts = cmpArgs.debts
        /\ cmpAvalanche.strategy = "avalanche"
    /\ cmpPc \in {"snowball", "done"} => cmpSnowball.strategy = "snowball"
    /\ cmpPc = "done" =>
        /\ cmpResult.avalanche =
            PayoffResult(CalculatePayoff(cmpArgs.debts, "avalanche",
                                         cmpArgs.extraMonthly), "avalanche")
        /\ cmpResult.snowball =
            PayoffResult(CalculatePayoff(cmpArgs.debts, "snowball",
                                         cmpArgs.extraMonthly), "snowball")
        /\ cmpResult.interestSaved =
            cmpResult.snowball.totalInterest - cmpResult.avalanche.totalInterest
        /\ cmpResult.monthsSaved =
            cmpResult.snowball.months - cmpResult.avalanche.months
        /\ Scenario2 =>
            /\ cmpResult.avalanche.debtPayoffOrder[1].id = "A"
            /\ FirstMonthPayment(cmpArgs.debts, "avalanche",
                                 cmpArgs.extraMonthly, "A") = Dollars(25) + Dollars(100)
            /\ FirstMonthPayment(cmpArgs.debts, "avalanche",
                                 cmpArgs.extraMonthly, "B") = Dollars(60)
            /\ cmpResult.interestSaved >= 0

\* scenario 2 has been compared
C11_Witness ==
    /\ cmpPc = "done"
    /\ Scenario2
    /\ cmpResult.avalanche.months > 0
    /\ cmpResult.snowball.months > 0

\* ---------------------------------------------------------------------
\* routes/debts.ts and the debt routes of routes/projections.ts
\* ---------------------------------------------------------------------

MaxDbDebts == 1

MAX_EXTRA_MONTHLY == 100000

MaxCustomDebts == 50

\* values of a request body field; amounts are whole dollars, rates whole
\* percents
Undefined == [kind |-> "undefined", v |-> 0]

\* a string that is not a number
Text == [kind |-> "text", v |-> 0]

Num(n) == [kind |-> "number", v |-> n]

NaN == [kind |-> "NaN", v |-> 0]

\* Number(x)
ToNumber(x) == IF x.kind = "number" THEN x ELSE NaN

\* x || 0, for a number x
OrZero(x) == IF x.kind = "NaN" \/ x.v = 0 THEN 0 ELSE x.v

\* isFloat({ min: 0 }) of express-validator
IsFloatMin0(x) == x.kind = "number" /\ x.v >= 0

\* Math.min(Math.max(0, Number(extraMonthly) || 0), MAX_EXTRA_MONTHLY)
SafeExtra(raw) == Min(Max(0, OrZero(ToNumber(raw))), MAX_EXTRA_MONTHLY)

\* the id a custom debt can be sent with: none, a string or a number
IdUndefined == [kind |-> "undefined", v |-> 0, s |-> ""]

IdText(s) == [kind |-> "string", v |-> 0, s |-> s]

IdNum(n) == [kind |-> "number", v |-> n, s |-> ""]

\* String(d.id || '')
IdString(x) ==
    IF x.kind = "string" THEN x.s
    ELSE IF x.kind = "number" /\ x.v # 0 THEN ToString(x.v)
    ELSE ""

\* the sanitized copy of one custom debt
SanitizeDebt(d) ==
    [id |-> IdString(d.id),
     balance |-> Max(0, OrZero(ToNumber(d.balance))),
     rate |-> Max(0, Min(100, OrZero(ToNumber(d.rate)))),
     minimum |-> Max(0, OrZero(ToNumber(d.minimum)))]

\* a database row as a DebtInput
FromRow(row) ==
    [id |-> row.id, balance |-> row.currentBalance, rate |-> row.interestRate,
     minimum |-> row.minimumPayment]

\* customDebts.map(...)
SanitizeDebts(items) == [i \in 1..Len(items) |-> SanitizeDebt(items[i])]

\* dbDebts.map(...)
FromRows(rows) == [i \in 1..Len(rows) |-> FromRow(rows[i])]

\* the emptiness test left out
IsEmptyNever(ds) == FALSE

\* debts.length === 0
IsEmpty(ds) == Len(ds) = 0

\* what a numeric field of a stored debt can be sent as
AmountInputs == {Undefined, Num(-50), Num(40)}

RateInputs == {Undefined, Num(-5), Num(20), Num(250)}

ExtraInputs == {Text, Num(-50), Num(100), Num(200000)}

StrategyInputs == {"avalanche", "fastest"}

\* the custom debts a request can carry
CustomItem(b, r, m) == [id |-> IdText("c1"), balance |-> b, rate |-> r, minimum |-> m]

CustomItems ==
    {CustomItem(Num(40), Num(20), Num(40)), CustomItem(Undefined, Text, Undefined),
     CustomItem(Num(-50), Num(-5), Num(-50)), CustomItem(Num(40), Num(250), Num(40)),
     CustomItem(Text, Num(20), Num(40))}

Repeat(x, n) == [i \in 1..n |-> x]

CustomInputs ==
    {[kind |-> "undefined", items |-> <<>>], [kind |-> "text", items |-> <<>>],
     [kind |-> "array", items |-> <<>>],
     [kind |-> "array",
      items |-> Repeat(CustomItem(Num(40), Num(20), Num(40)), MaxCustomDebts + 1)]}
    \cup {[kind |-> "array", items |-> <<d>>] : d \in CustomItems}

FreeIds == {i \in 1..MaxDbDebts : \A j \in 1..Len(dbDebts) : dbDebts[j].id # i}

RouteInit == RouteIdle /\ NonRouteIdle

\* POST /api/debts
CreateDebt ==
    \E cb \in AmountInputs, ir \in RateInputs, mp \in AmountInputs,
       account \in {"own", "other"} :
        /\ FreeIds # {}
        /\ IF ~(IsFloatMin0(cb) /\ IsFloatMin0(ir) /\ IsFloatMin0(mp))
           THEN /\ routeResponse' = [status |-> 400, result |-> "", message |-> "errors"]
                /\ UNCHANGED dbDebts
           ELSE IF account # "own"
           THEN /\ routeResponse' = [status |-> 404, result |-> "",
                                     message |-> "Account not found"]
                /\ UNCHANGED dbDebts
           ELSE /\ dbDebts' = Append(dbDebts,
                        [id |-> CHOOSE i \in FreeIds : \A j \in FreeIds : i <= j,
                         currentBalance |-> cb.v, interestRate |-> ir.v,
                         minimumPayment |-> mp.v])
                /\ routeResponse' = [status |-> 201, result |-> "debt", message |-> ""]
        /\ routeCall' = NoCall
        /\ routeRequest' = [NoRequest EXCEPT !.route = "debts"]
        /\ UNCHANGED nonRouteVars

\* the row with the fields of the body that are not undefined written over it
UpdatedRow(row, cb, ir, mp) ==
    [id |-> row.id,
     currentBalance |-> IF cb = Undefined THEN row.currentBalance ELSE cb.v,
     interestRate |-> IF ir = Undefined THEN row.interestRate ELSE ir.v,
     minimumPayment |-> IF mp = Undefined THEN row.minimumPayment ELSE mp.v]

\* PUT /api/debts/:id
UpdateDebt ==
    \E id \in 1..MaxDbDebts, cb \in AmountInputs, ir \in RateInputs,
       mp \in AmountInputs, dueDate \in {Undefined, Num(0)} :
        /\ IF \A j \in 1..Len(dbDebts) : dbDebts[j].id # id
           THEN /\ routeResponse' = [status |-> 404, result |-> "",
                                     message |-> "Debt not found"]
                /\ UNCHANGED dbDebts
           ELSE IF dueDate # Undefined /\ (dueDate.v < 1 \/ dueDate.v > 31)
           THEN /\ routeResponse' = [status |-> 400, result |-> "",
                                     message |-> "dueDate"]
                /\ UNCHANGED dbDebts
           ELSE /\ dbDebts' = [j \in 1..Len(dbDebts) |->
                                IF dbDebts[j].id = id
                                THEN UpdatedRow(dbDebts[j], cb, ir, mp)
                                ELSE dbDebts[j]]
                /\ routeResponse' = [status |-> 200, result |-> "debt", message |-> ""]
        /\ routeCall' = NoCall
        /\ routeRequest' = [NoRequest EXCEPT !.route = "debts"]
        /\ UNCHANGED nonRouteVars

\* DELETE /api/debts/:id
DeleteDebt ==
    \E id \in 1..MaxDbDebts :
        /\ IF \A j \in 1..Len(dbDebts) : dbDebts[j].id # id
           THEN /\ routeResponse' = [status |-> 404, result |-> "",
                                     message |-> "Debt not found"]
                /\ UNCHANGED dbDebts
           ELSE /\ dbDebts' = SelectSeq(dbDebts, LAMBDA r : r.id # id)
                /\ routeResponse' = [status |-> 200, result |-> "",
                                     message |-> "Debt deleted"]
        /\ routeCall' = NoCall
        /\ routeRequest' = [NoRequest EXCEPT !.route = "debts"]
        /\ UNCHANGED nonRouteVars

\* POST /api/projections/debt-payoff; the response holds the value of the
\* call recorded in routeCall
DebtPayoffRoute ==
    \E strat \in StrategyInputs, extra \in ExtraInputs, customDebts \in CustomInputs :
        /\ routeRequest' = [route |-> "debt-payoff", strategy |-> strat,
                            extraMonthly |-> extra, customDebts |-> customDebts]
        /\ IF strat \notin Strategies
           THEN /\ routeResponse' = [status |-> 400, result |-> "", message |-> "Strategy"]
                /\ routeCall' = NoCall
           ELSE IF customDebts.kind = "text"
                   \/ (customDebts.kind = "array"
                       /\ Len(customDebts.items) > MaxCustomDebts)
           THEN /\ routeResponse' = [status |-> 400, result |-> "",
                                     message |-> "customDebts"]
                /\ routeCall' = NoCall
           ELSE LET ds == IF customDebts.kind = "array"
                          THEN SanitizeDebts(customDebts.items)
                          ELSE FromRows(dbDebts)
                IN  IF IsEmpty(ds)
                    THEN /\ routeResponse' = [status |-> 200, result |-> "null",
                                              message |-> "No debts to calculate"]
                         /\ routeCall' = NoCall
                    ELSE /\ routeCall' = [fn |-> "calculatePayoff", debts |-> ds,
                                          strategy |-> strat,
                                          extraMonthly |-> SafeExtra(extra)]
                         /\ routeResponse' = [status |-> 200, result |-> "payoff",
                                              message |-> ""]
        /\ UNCHANGED <<dbDebts, nonRouteVars>>

\* POST /api/projections/debt-compare
DebtCompareRoute ==
    \E extra \in ExtraInputs :
        /\ routeRequest' = [NoRequest EXCEPT !.route = "debt-compare",
                                             !.extraMonthly = extra]
        /\ LET ds == FromRows(dbDebts)
           IN  IF IsEmpty(ds)
               THEN /\ routeResponse' = [status |-> 200, result |-> "null",
                                         message |-> "No debts to compare"]
                    /\ routeCall' = NoCall
               ELSE /\ routeCall' = [fn |-> "compareStrategies", debts |-> ds,
                                     strategy |-> "",
                                     extraMonthly |-> SafeExtra(extra)]
                    /\ routeResponse' = [status |-> 200, result |-> "comparison",
                                         message |-> ""]
        /\ UNCHANGED <<dbDebts, nonRouteVars>>

RouteNext ==
    CreateDebt \/ UpdateDebt \/ DeleteDebt \/ DebtPayoffRoute \/ DebtCompareRoute

RouteSpec == RouteInit /\ [][RouteNext]_vars

ValidDebt(d) == d.rate >= 0 /\ d.rate <= 100 /\ d.balance >= 0 /\ d.minimum >= 0

\* C12, as claimed: every call the routes make to calculatePayoff or
\* compareStrategies passes debts with rate in [0,100], balance >= 0 and
\* minimum >= 0, and an extraMonthly in [0,100000].
C12_AsClaimed ==
    routeCall.fn # "none" =>
        /\ \A i \in 1..Len(routeCall.debts) : ValidDebt(routeCall.debts[i])
        /\ routeCall.extraMonthly >= 0
        /\ routeCall.extraMonthly <= MAX_EXTRA_MONTHLY

\* the request is one whose debt list is empty: customDebts is an empty
\* array, or there are no custom debts and the user has no debts
EmptyPayoffRequest ==
    /\ routeRequest.route = "debt-payoff"
    /\ routeRequest.strategy \in Strategies
    /\ \/ routeRequest.customDebts.kind = "array"
          /\ Len(routeRequest.customDebts.items) = 0
       \/ routeRequest.customDebts.kind = "undefined" /\ dbDebts = <<>>

EmptyCompareRequest == routeRequest.route = "debt-compare" /\ dbDebts = <<>>

\* C13: when the debt list is empty (the user has no debts, or customDebts
\* is an empty array) the debt-payoff and debt-compare routes answer with
\* result null and a 'no debts' message, and calculatePayoff and
\* compareStrategies are never called with an empty list.
C13_EmptyShortCircuit ==
    /\ EmptyPayoffRequest =>
        /\ routeResponse = [status |-> 200, result |-> "null",
                            message |-> "No debts to calculate"]
        /\ routeCall.fn = "none"
    /\ EmptyCompareRequest =>
        /\ routeResponse = [status |-> 200, result |-> "null",
                            message |-> "No debts to compare"]
        /\ routeCall.fn = "none"
    /\ routeCall.fn # "none" => Len(routeCall.debts) > 0

\* an empty customDebts array was sent while the user has a debt
C13_Witness ==
    /\ EmptyPayoffRequest
    /\ routeRequest.customDebts.kind = "array"
    /\ dbDebts # <<>>
    /\ routeResponse.result = "null"

\* ---------------------------------------------------------------------
\* services/financialHealth.ts: calculateHealthScore
\* ---------------------------------------------------------------------

\* A number that a division produced is kept as the exact fraction n / d
\* with d >= 0; d = 0 stands for what a division by zero gives: NaN when
\* n = 0, plus or minus Infinity with the sign of n otherwise.
Rat(n, d) == [n |-> n, d |-> d]

Sign(n) == IF n > 0 THEN 1 ELSE IF n < 0 THEN -1 ELSE 0

\* a / b
Div(a, b) ==
    IF b = 0 THEN Rat(Sign(a), 0)
    ELSE IF b < 0 THEN Rat(-a, -b)
    ELSE Rat(a, b)

IsFinite(r) == r.d # 0

IsNaN(r) == r.d = 0 /\ r.n = 0

\* r <= k, r < k, r >= k, r > k for an integer k; all false for NaN
Leq(r, k) == IF r.d = 0 THEN r.n < 0 ELSE r.n <= k * r.d

Lt(r, k) == IF r.d = 0 THEN r.n < 0 ELSE r.n < k * r.d

Geq(r, k) == IF r.d = 0 THEN r.n > 0 ELSE r.n >= k * r.d

Gt(r, k) == IF r.d = 0 THEN r.n > 0 ELSE r.n > k * r.d

\* r * k and r + k for an integer k
Times(r, k) == IF r.d = 0 THEN Rat(Sign(r.n * k), 0) ELSE Rat(r.n * k, r.d)

Plus(r, k) == IF r.d = 0 THEN r ELSE Rat(r.n + k * r.d, r.d)

\* Math.max(k, r) and Math.min(k, r): NaN if r is NaN
MathMax(k, r) == IF IsNaN(r) THEN r ELSE IF Geq(r, k) THEN r ELSE Rat(k, 1)

MathMin(k, r) == IF IsNaN(r) THEN r ELSE IF Leq(r, k) THEN r ELSE Rat(k, 1)

\* Math.floor(r)
MathFloor(r) == IF r.d = 0 THEN r ELSE Rat(r.n \div r.d, 1)

\* Math.round(r): the nearest integer, a half rounded up
MathRound(r) == IF r.d = 0 THEN r ELSE Rat((2 * r.n + r.d) \div (2 * r.d), 1)

\* the savings rate without the test of monthlyIncome
SavingsRateUnguarded(input) ==
    Times(Div(input.monthlyIncome - input.monthlyExpenses, input.monthlyIncome), 100)

SavingsRate(input) ==
    IF input.monthlyIncome > 0
    THEN Times(Div(input.monthlyIncome - input.monthlyExpenses, input.monthlyIncome), 100)
    ELSE Rat(0, 1)

SavingsScore(savingsRate) == MathMin(20, MathMax(0, savingsRate))

Dti(input) ==
    IF input.monthlyIncome > 0
    THEN Times(Div(input.totalDebt, input.monthlyIncome * 12), 100)
    ELSE Rat(100, 1)

\* the steps of the DTI score with < for <=
DtiScoreStrict(dti) ==
    IF Lt(dti, 0) THEN 20 ELSE IF Lt(dti, 20) THEN 18 ELSE IF Lt(dti, 36) THEN 14
    ELSE IF Lt(dti, 50) THEN 8 ELSE 2

DtiScore(dti) ==
    IF Leq(dti, 0) THEN 20 ELSE IF Leq(dti, 20) THEN 18 ELSE IF Leq(dti, 36) THEN 14
    ELSE IF Leq(dti, 50) THEN 8 ELSE 2

EmergencyMonths(input) ==
    IF input.monthlyExpenses > 0
    THEN Div(input.emergencyFundBalance, input.monthlyExpenses)
    ELSE Rat(0, 1)

EmergencyScore(emergencyMonths) ==
    IF Geq(emergencyMonths, 6) THEN 20 ELSE IF Geq(emergencyMonths, 3) THEN 14
    ELSE IF Geq(emergencyMonths, 1) THEN 8 ELSE 2

InvestmentRate(input) ==
    IF input.monthlyIncome > 0
    THEN Times(Div(input.totalInvestments, input.monthlyIncome * 12), 100)
    ELSE Rat(0, 1)

InvestmentScore(investmentRate) ==
    Min(20, IF Geq(investmentRate, 100) THEN 20 ELSE IF Geq(investmentRate, 50) THEN 16
            ELSE IF Geq(investmentRate, 25) THEN 12
            ELSE IF Geq(investmentRate, 10) THEN 8 ELSE 4)

UtilizationScore(creditUtilization) ==
    IF creditUtilization <= 10 THEN 20 ELSE IF creditUtilization <= 30 THEN 16
    ELSE IF creditUtilization <= 50 THEN 10 ELSE IF creditUtilization <= 75 THEN 5 ELSE 1

OverallScore(sc) ==
    MathRound(Plus(sc.savingsScore,
                   sc.dtiScore + sc.emergencyScore + sc.investmentScore
                   + sc.utilizationScore))

Grade(overallScore) ==
    IF Geq(overallScore, 90) THEN "A" ELSE IF Geq(overallScore, 80) THEN "B"
    ELSE IF Geq(overallScore, 65) THEN "C" ELSE IF Geq(overallScore, 50) THEN "D"
    ELSE "F"

\* one push per condition; a recommendation is kept as the name of its
\* condition, its text with the numbers formatted into it is left out
PushIf(cond, list, rec) == IF cond THEN Append(list, rec) ELSE list

\* the second emergency recommendation without its lower limit
GrowEmergencyNoLowerLimit(emergencyMonths) == Lt(emergencyMonths, 6)

GrowEmergency(emergencyMonths) == Lt(emergencyMonths, 6) /\ Geq(emergencyMonths, 3)

Recommendations(rates, creditUtilization) ==
    LET r1 == PushIf(Lt(rates.savingsRate, 20), <<>>, "savings")
        r2 == PushIf(Gt(rates.dti, 36), r1, "dti")
        r3 == PushIf(Lt(rates.emergencyMonths, 3), r2, "emergency3")
        r4 == PushIf(GrowEmergency(rates.emergencyMonths), r3, "emergency6")
        r5 == PushIf(creditUtilization > 30, r4, "utilization")
    IN  PushIf(Len(r5) = 0, r5, "excellent")

\* the savings score of components with Math.floor for Math.round
ReportedSavingsScoreFloor(savingsScore) == MathFloor(savingsScore)

ReportedSavingsScore(savingsScore) == MathRound(savingsScore)

HealthResult(rates, sc, overall, recs, creditUtilization) ==
    [overallScore |-> overall.overallScore,
     grade |-> overall.grade,
     components |->
        [savingsRate |-> [score |-> ReportedSavingsScore(sc.savingsScore),
                          value |-> rates.savingsRate],
         debtToIncome |-> [score |-> Rat(sc.dtiScore, 1), value |-> rates.dti],
         emergencyFund |-> [score |-> Rat(sc.emergencyScore, 1),
                            value |-> rates.emergencyMonths],
         investmentRate |-> [score |-> Rat(sc.investmentScore, 1),
                             value |-> rates.investmentRate],
         creditUtilization |-> [score |-> Rat(sc.utilizationScore, 1),
                                value |-> Rat(creditUtilization, 1)]],
     recommendations |-> recs]

\* inputs in whole dollars and whole percents
HealthInputs ==
    [monthlyIncome : {0, 3000, 5000},
     monthlyExpenses : {0, 2500, 2985, 2990, 4000},
     totalDebt : {0, 7200, 21600, 30000, 50000},
     totalAssets : {0},
     totalInvestments : {0, 6000, 15000, 30000, 60000},
     emergencyFundBalance : {0, 4000, 12000, 24000},
     creditUtilization : {0, 10, 30, 31, 50, 75, 90}]

HealthInit ==
    /\ hsPc = "call"
    /\ hsInput \in HealthInputs
    /\ hsRates = <<>>
    /\ hsScores = <<>>
    /\ hsOverall = <<>>
    /\ hsRecommendations = <<>>
    /\ hsResult = <<>>
    /\ NonHealthIdle

\* lines 30-47: the four ratios and the five sub-scores
HealthScores ==
    /\ hsPc = "call"
    /\ hsPc' = "scores"
    /\ hsRates' = [savingsRate |-> SavingsRate(hsInput),
                   dti |-> Dti(hsInput),
                   emergencyMonths |-> EmergencyMonths(hsInput),
                   investmentRate |-> InvestmentRate(hsInput)]
    /\ hsScores' = [savingsScore |-> SavingsScore(SavingsRate(hsInput)),
                    dtiScore |-> DtiScore(Dti(hsInput)),
                    emergencyScore |-> EmergencyScore(EmergencyMonths(hsInput)),
                    investmentScore |-> InvestmentScore(InvestmentRate(hsInput)),
                    utilizationScore |-> UtilizationScore(hsInput.creditUtilization)]
    /\ UNCHANGED <<hsInput, hsOverall, hsRecommendations, hsResult, nonHealthVars>>

\* lines 49-51: overallScore and grade
HealthOverall ==
    /\ hsPc = "scores"
    /\ hsPc' = "overall"
    /\ hsOverall' = [overallScore |-> OverallScore(hsScores),
                     grade |-> Grade(OverallScore(hsScores))]
    /\ UNCHANGED <<hsInput, hsRates, hsScores, hsRecommendations, hsResult,
                   nonHealthVars>>

\* lines 53-59: the recommendations
HealthRecommendations ==
    /\ hsPc = "overall"
    /\ hsPc' = "recommendations"
    /\ hsRecommendations' = Recommendations(hsRates, hsInput.creditUtilization)
    /\ UNCHANGED <<hsInput, hsRates, hsScores, hsOverall, hsResult, nonHealthVars>>

\* lines 61-72: the return statement
HealthReturn ==
    /\ hsPc = "recommendations"
    /\ hsPc' = "done"
    /\ hsResult' = HealthResult(hsRates, hsScores, hsOverall, hsRecommendations,
                                hsInput.creditUtilization)
    /\ UNCHANGED <<hsInput, hsRates, hsScores, hsOverall, hsRecommendations,
                   nonHealthVars>>

HealthNext == HealthScores \/ HealthOverall \/ HealthRecommendations \/ HealthReturn

HealthSpec == HealthInit /\ [][HealthNext]_vars

\* the five scores reported in components
ComponentScores ==
    <<hsResult.components.savingsRate.score, hsResult.components.debtToIncome.score,
      hsResult.components.emergencyFund.score, hsResult.components.investmentRate.score,
      hsResult.components.creditUtilization.score>>

Scenario3 ==
    /\ hsInput.monthlyIncome = 5000
    /\ hsInput.monthlyExpenses = 4000
    /\ hsInput.totalDebt = 0
    /\ hsInput.emergencyFundBalance = 12000

\* C15: for positive income and expenses the five sub-scores are: savings =
\* clamp((income-expenses)/income*100, 0, 20); DTI = totalDebt/(income*12)*100
\* scored <=0: 20, <=20: 18, <=36: 14, <=50: 8, else 2; emergency months =
\* emergencyFundBalance/monthlyExpenses scored >=6: 20, >=3: 14, >=1: 8, else
\* 2; investment rate scored >=100: 20, >=50: 16, >=25: 12, >=10: 8, else 4;
\* utilization scored <=10: 20, <=30: 16, <=50: 10, <=75: 5, else 1.  Income
\* 5000, expenses 4000, debt 0 and emergency fund 12000 give savings 20, DTI
\* 20 and emergency 14.  The result reports the four stepped scores as they
\* are and the savings score rounded to the nearest integer.
C15_ComponentScores ==
    (hsPc # "call" /\ hsInput.monthlyIncome > 0 /\ hsInput.monthlyExpenses > 0) =>
        LET inc == hsInput.monthlyIncome
            exp == hsInput.monthlyExpenses
            saved == (inc - exp) * 100
            debt == hsInput.totalDebt * 100
            fund == hsInput.emergencyFundBalance
            inv == hsInput.totalInvestments * 100
            u == hsInput.creditUtilization
            s == hsScores.savingsScore
        IN  /\ s.d > 0
            /\ IF saved >= 20 * inc THEN s.n = 20 * s.d
               ELSE IF saved <= 0 THEN s.n = 0
               ELSE s.n * inc = saved * s.d
            /\ hsScores.dtiScore =
                (IF debt <= 0 THEN 20 ELSE IF debt <= 20 * inc * 12 THEN 18
                 ELSE IF debt <= 36 * inc * 12 THEN 14
                 ELSE IF debt <= 50 * inc * 12 THEN 8 ELSE 2)
            /\ hsScores.emergencyScore =
                (IF fund >= 6 * exp THEN 20 ELSE IF fund >= 3 * exp THEN 14
                 ELSE IF fund >= exp THEN 8 ELSE 2)
            /\ hsScores.investmentScore =
                (IF inv >= 100 * inc * 12 THEN 20 ELSE IF inv >= 50 * inc * 12 THEN 16
                 ELSE IF inv >= 25 * inc * 12 THEN 12
                 ELSE IF inv >= 10 * inc * 12 THEN 8 ELSE 4)
            /\ hsScores.utilizationScore =
                (IF u <= 10 THEN 20 ELSE IF u <= 30 THEN 16 ELSE IF u <= 50 THEN 10
                 ELSE IF u <= 75 THEN 5 ELSE 1)
            /\ Scenario3 =>
                /\ s.n = 20 * s.d
                /\ hsScores.dtiScore = 20
                /\ hsScores.emergencyScore = 14
            /\ hsPc = "done" =>
                LET cs == ComponentScores
                IN  /\ \A i \in 1..5 : cs[i].d = 1
                    /\ (2 * cs[1].n - 1) * s.d <= 2 * s.n
                    /\ 2 * s.n < (2 * cs[1].n + 1) * s.d
                    /\ cs[2].n = hsScores.dtiScore
                    /\ cs[3].n = hsScores.emergencyScore
                    /\ cs[4].n = hsScores.investmentScore
                    /\ cs[5].n = hsScores.utilizationScore

\* scenario 3 has been scored
C15_Witness == hsPc = "done" /\ Scenario3 /\ hsScores.emergencyScore = 14

\* r is the number k
IsNumber(r, k) == r.d > 0 /\ r.n = k * r.d

\* C16: with monthlyIncome = 0 or monthlyExpenses = 0 and no negative input,
\* calculateHealthScore yields no NaN and no infinite value: with income 0
\* the savings rate is 0 (score 0), the DTI is 100 (score 2) and the
\* investment rate is 0; with expenses 0 the emergency coverage is 0 months
\* (score 2).
C16_ZeroIncomeOrExpenses ==
    (hsPc = "done" /\ (hsInput.monthlyIncome = 0 \/ hsInput.monthlyExpenses = 0)) =>
        /\ IsFinite(hsRates.savingsRate) /\ IsFinite(hsRates.dti)
        /\ IsFinite(hsRates.emergencyMonths) /\ IsFinite(hsRates.investmentRate)
        /\ IsFinite(hsScores.savingsScore)
        /\ IsFinite(hsResult.overallScore)
        /\ IsFinite(hsResult.components.savingsRate.score)
        /\ IsFinite(hsResult.components.savingsRate.value)
        /\ IsFinite(hsResult.components.debtToIncome.value)
        /\ IsFinite(hsResult.components.emergencyFund.value)
        /\ IsFinite(hsResult.components.investmentRate.value)
        /\ hsInput.monthlyIncome = 0 =>
            /\ IsNumber(hsRates.savingsRate, 0)
            /\ IsNumber(hsScores.savingsScore, 0)
            /\ IsNumber(hsRates.dti, 100)
            /\ hsScores.dtiScore = 2
            /\ IsNumber(hsRates.investmentRate, 0)
        /\ hsInput.monthlyExpenses = 0 =>
            /\ IsNumber(hsRates.emergencyMonths, 0)
            /\ hsScores.emergencyScore = 2

\* a result for no income and no expenses, with debt and an emergency fund
C16_Witness ==
    /\ hsPc = "done"
    /\ hsInput.monthlyIncome = 0
    /\ hsInput.monthlyExpenses = 0
    /\ hsInput.totalDebt > 0
    /\ hsInput.emergencyFundBalance > 0

\* the five conditions, in the order of the checks
RecommendationConditions ==
    <<Lt(hsRates.savingsRate, 20),
      Gt(hsRates.dti, 36),
      Lt(hsRates.emergencyMonths, 3),
      Geq(hsRates.emergencyMonths, 3) /\ Lt(hsRates.emergencyMonths, 6),
      hsInput.creditUtilization > 30>>

RecommendationNames == <<"savings", "dti", "emergency3", "emergency6", "utilization">>

Has(list, x) == \E i \in 1..Len(list) : list[i] = x

\* C17: the recommendations are built in the fixed order savings rate < 20,
\* DTI > 36, emergency coverage < 3 months, emergency coverage in [3,6),
\* credit utilization > 30, one per condition that holds; the list is never
\* empty, the positive message is in it if and only if none of the five
\* conditions holds, and the two emergency recommendations never appear
\* together.
C17_Recommendations ==
    hsPc \in {"recommendations", "done"} =>
        LET holding == SelectSeq(<<1, 2, 3, 4, 5>>,
                                 LAMBDA i : RecommendationConditions[i])
            expected == [k \in 1..Len(holding) |-> RecommendationNames[holding[k]]]
            none == \A i \in 1..5 : ~RecommendationConditions[i]
        IN  /\ Len(hsRecommendations) > 0
            /\ ~none => hsRecommendations = expected
            /\ none => hsRecommendations = <<"excellent">>
            /\ Has(hsRecommendations, "excellent") <=> none
            /\ ~(Has(hsRecommendations, "emergency3")
                 /\ Has(hsRecommendations, "emergency6"))
            /\ hsPc = "done" => hsResult.recommendations = hsRecommendations

\* four recommendations, the second emergency one among them
C17_Witness ==
    /\ hsPc = "done"
    /\ hsResult.recommendations = <<"savings", "dti", "emergency6", "utilization">>

\* ---------------------------------------------------------------------
\* services/financialHealth.ts: forecastCashFlow
\* ---------------------------------------------------------------------

\* amounts are held in thousandths of a dollar
Mills(dollars) == dollars * 1000

\* Math.abs
Abs(x) == IF x < 0 THEN -x ELSE x

\* Math.round(balance * 100) / 100: the nearest cent, a half rounded up
RoundToCents(x) == ((x + 5) \div 10) * 10

\* the lengths of the months of a year that is not a leap year
MonthLengths == <<31, 28, 31, 30, 31, 30, 31, 31, 30, 31, 30, 31>>

RECURSIVE MonthAndDay(_, _)
\* month and day of month of the n-th day (from 0) counted from the first
\* of month m
MonthAndDay(n, m) ==
    IF n < MonthLengths[m] THEN [month |-> m, day |-> n + 1]
    ELSE MonthAndDay(n - MonthLengths[m], m + 1)

\* the calendar date of day number n, days being counted from 1 January of
\* the year the clock is in
DateOf(n) ==
    LET md == MonthAndDay(n % 365, 1)
    IN  [year |-> n \div 365, month |-> md.month, day |-> md.day]

\* date.setDate(date.getDate() + d): d days later at the same local time
LocalDay(clock, d) == clock.day + d

\* date.getDate(): the day of month in the server's time zone
GetDate(clock, d) == DateOf(LocalDay(clock, d)).day

\* date.toISOString().split('T')[0]: the calendar date in UTC; local time is
\* UTC plus utcOffset hours
IsoDate(clock, d) == DateOf(LocalDay(clock, d) + (clock.hour - clock.utcOffset) \div 24)

RECURSIVE SumMatching(_, _, _)
\* the sum over the first n flows of the amounts of those on dayOfMonth
SumMatching(flows, n, dayOfMonth) ==
    IF n = 0 THEN 0
    ELSE SumMatching(flows, n - 1, dayOfMonth)
         + (IF flows[n].dayOfMonth = dayOfMonth THEN flows[n].amount ELSE 0)

RECURSIVE SumAbsMatching(_, _, _)
SumAbsMatching(flows, n, dayOfMonth) ==
    IF n = 0 THEN 0
    ELSE SumAbsMatching(flows, n - 1, dayOfMonth)
         + (IF flows[n].dayOfMonth = dayOfMonth THEN Abs(flows[n].amount) ELSE 0)

\* the descriptions of the flows on dayOfMonth, each with its prefix
LabelsOf(flows, prefix, dayOfMonth) ==
    LET on == SelectSeq(flows, LAMBDA f : f.dayOfMonth = dayOfMonth)
    IN  [i \in 1..Len(on) |-> <<prefix, on[i].description>>]

\* labels.length > 0 ? labels.join(', ') : undefined
LabelField(labels) ==
    IF Len(labels) > 0 THEN [defined |-> TRUE, parts |-> labels]
    ELSE [defined |-> FALSE, parts |-> <<>>]

Flow(amount, dayOfMonth, description) ==
    [amount |-> amount, dayOfMonth |-> dayOfMonth, description |-> description]

\* the recurring flows of the calls followed: scenario 4, and a list with
\* two flows on one day, a flow on day 31, an expense held as a negative
\* amount and an amount with a fraction of a cent
FlowChoices ==
    {[income |-> <<Flow(Mills(2000), 1, "Salary")>>,
      expenses |-> <<Flow(Mills(500), 15, "Rent")>>],
     [income |-> <<Flow(Mills(2000), 15, "Salary"), Flow(Mills(100) + 4, 31, "Bonus")>>,
      expenses |-> <<Flow(-Mills(500), 15, "Rent"), Flow(Mills(40) + 5, 16, "Phone")>>]}

DaysChoices == {1, 2, 3, 32}

\* the clocks of the calls followed: 14 January, 28 February and 31
\* December; just after midnight, noon and evening; three time zones
ClockChoices == [day : {13, 58, 364}, hour : {0, 12, 20}, utcOffset : {-5, 0, 2}]

ForecastInit ==
    /\ fcPc = "loop"
    /\ \E fl \in FlowChoices, days \in DaysChoices, bal \in {Mills(1000)} :
        /\ fcArgs = [currentBalance |-> bal, recurringIncome |-> fl.income,
                     recurringExpenses |-> fl.expenses, days |-> days]
        /\ fcBalance = bal
    /\ fcClock \in ClockChoices
    /\ fcD = 0
    /\ fcForecast = <<>>
    /\ NonForecastIdle

\* one iteration of for (let d = 0; d < days; d++)
ForecastDay ==
    /\ fcPc = "loop"
    /\ fcD < fcArgs.days
    /\ LET dayOfMonth == GetDate(fcClock, fcD)
           dayIncome == SumMatching(fcArgs.recurringIncome,
                                    Len(fcArgs.recurringIncome), dayOfMonth)
           dayExpense == SumAbsMatching(fcArgs.recurringExpenses,
                                        Len(fcArgs.recurringExpenses), dayOfMonth)
           labels == LabelsOf(fcArgs.recurringIncome, "+", dayOfMonth)
                     \o LabelsOf(fcArgs.recurringExpenses, "-", dayOfMonth)
           balance == fcBalance + dayIncome - dayExpense
       IN  /\ fcBalance' = balance
           /\ fcForecast' = Append(fcForecast,
                [date |-> IsoDate(fcClock, fcD),
                 projectedBalance |-> RoundToCents(balance),
                 income |-> dayIncome,
                 expenses |-> dayExpense,
                 label |-> LabelField(labels)])
    /\ fcD' = fcD + 1
    /\ UNCHANGED <<fcPc, fcArgs, fcClock, nonForecastVars>>

\* the loop is left and forecast returned
ForecastReturn ==
    /\ fcPc = "loop"
    /\ ~(fcD < fcArgs.days)
    /\ fcPc' = "done"
    /\ UNCHANGED <<fcArgs, fcClock, fcD, fcBalance, fcForecast, nonForecastVars>>

ForecastNext == ForecastDay \/ ForecastReturn

ForecastSpec == ForecastInit /\ [][ForecastNext]_vars

\* the flows of the call that fall on the day of month of the i-th entry's date
IncomeOn(i) ==
    SumMatching(fcArgs.recurringIncome, Len(fcArgs.recurringIncome),
                fcForecast[i].date.day)

ExpensesOn(i) ==
    SumAbsMatching(fcArgs.recurringExpenses, Len(fcArgs.recurringExpenses),
                   fcForecast[i].date.day)

AnyFlowOn(i) ==
    \/ \E k \in 1..Len(fcArgs.recurringIncome) :
            fcArgs.recurringIncome[k].dayOfMonth = fcForecast[i].date.day
    \/ \E k \in 1..Len(fcArgs.recurringExpenses) :
            fcArgs.recurringExpenses[k].dayOfMonth = fcForecast[i].date.day

RECURSIVE RunningBalance(_)
\* the balance after the flows of the dates of the first i entries
RunningBalance(i) ==
    IF i = 0 THEN fcArgs.currentBalance
    ELSE RunningBalance(i - 1) + IncomeOn(i) - ExpensesOn(i)

\* C18, as claimed: forecastCashFlow returns exactly `days` entries for
\* consecutive calendar dates starting today (the date of the server's clock,
\* in its own time zone or in UTC); each entry's balance is the previous
\* balance plus the amounts of the income flows whose dayOfMonth is the day
\* of month of that entry's date minus the absolute amounts of the expense
\* flows on it, shown rounded to cents; on a date without a flow the balance
\* is the previous one and the label is absent.
C18_AsClaimed ==
    fcPc = "done" =>
        /\ Len(fcForecast) = fcArgs.days
        /\ fcForecast[1].date \in {DateOf(fcClock.day), IsoDate(fcClock, 0)}
        /\ \A i \in 1..Len(fcForecast) :
            /\ i > 1 => \E n \in 0..800 :
                    fcForecast[i - 1].date = DateOf(n) /\ fcForecast[i].date = DateOf(n + 1)
            /\ fcForecast[i].income = IncomeOn(i)
            /\ fcForecast[i].expenses = ExpensesOn(i)
            /\ fcForecast[i].projectedBalance = RoundToCents(RunningBalance(i))
            /\ ~AnyFlowOn(i) =>
                /\ fcForecast[i].projectedBalance = RoundToCents(RunningBalance(i - 1))
                /\ ~fcForecast[i].label.defined

\* ---------------------------------------------------------------------
\* routes/projections.ts: POST /investment-growth
\* ---------------------------------------------------------------------

MaxYears == 3

MaxSeed == 1

\* for (let i = 0; i < 50; i++)
Trials == 50

\* Math.random() is followed as a congruential generator whose state is one
\* of RandomModulus values and whose results are the RandomResolution
\* numbers 0/8, 1/8, ..., 7/8
RandomModulus == 64

RandomResolution == 8

\* the generator's state after one more Math.random()
NextRandom(r) == (5 * r + 3) % RandomModulus

\* the numerator of the number Math.random() returned, over RandomResolution
RandomValue(r) == r \div (RandomModulus \div RandomResolution)

\* x || dflt, for a number x
OrDefault(x, dflt) == IF x.kind = "NaN" \/ x.v = 0 THEN dflt ELSE x.v

\* a * k / d to the nearest unit, computed without leaving 32 bits
MulDivRound(a, k, d) == (a \div d) * k + ((a % d) * k + d \div 2) \div d

\* Math.round(x * 100) / 100 of an amount held in units of 1/10000 dollar
RoundCents(x) == ((x + Eps \div 2) \div Eps) * Eps

\* values of req.body.years: absent, a string that is not a number, or the
\* number n / d
YearsUndefined == [kind |-> "undefined", n |-> 0, d |-> 1]

YearsText == [kind |-> "text", n |-> 0, d |-> 1]

YearsNum(n, d) == [kind |-> "number", n |-> n, d |-> d]

\* Math.min(Math.max(1, Number(rawYears) || 30), 50); rawYears defaults to
\* 30; the result is kept as a fraction, no step makes it an integer
YearsOf(rawYears) ==
    LET number == IF rawYears.kind = "number" /\ rawYears.n # 0
                  THEN Rat(rawYears.n, rawYears.d)
                  ELSE Rat(30, 1)
    IN  MathMin(50, MathMax(1, number))

\* lines 118-120, in whole percents
AnnualReturnPctOf(annualReturn) ==
    LET n == IF annualReturn # Undefined THEN ToNumber(annualReturn) ELSE Num(7)
        finite == IF n.kind = "number" THEN n.v ELSE 7
    IN  Min(Max(finite, -50), 100)

RECURSIVE SumField(_, _)
\* investments.reduce((s, i) => s + i.<field>, 0), rows given as the field's values
SumField(values, n) == IF n = 0 THEN 0 ELSE SumField(values, n - 1) + values[n]

\* lines 123 and 130-132, in whole dollars
CurrentBalanceOf(b) ==
    IF b.initialBalance # Undefined
    THEN Min(Max(0, OrZero(ToNumber(b.initialBalance))), 1000000000)
    ELSE Min(SumField([i \in 1..Len(b.investments) |-> b.investments[i].currentValue],
                      Len(b.investments)), 1000000000)

\* lines 124 and 133-135, in whole dollars
MonthlyAddOf(b) ==
    IF b.monthlyContribution # Undefined
    THEN Min(Max(0, OrZero(ToNumber(b.monthlyContribution))), 1000000)
    ELSE Min(SumField([i \in 1..Len(b.investments) |->
                            b.investments[i].monthlyContribution],
                      Len(b.investments)), 1000000)

\* the running sum of contributions started at nothing
InitialContributionsZero(currentBalance) == 0

\* let totalContributions = currentBalance
InitialContributions(currentBalance) == Dollars(currentBalance)

\* the monthly rate taken from what Math.random() would give next
GrowMonthRandom(balance, annualReturnPct, monthlyAdd) ==
    balance + MulDivRound(balance, annualReturnPct + RandomValue(puRandom), 1200)
        + Dollars(monthlyAdd)

\* balance * (1 + monthlyRate) + monthlyAdd, monthlyRate = annualReturnPct / 100 / 12
GrowMonth(balance, annualReturnPct, monthlyAdd) ==
    balance + MulDivRound(balance, annualReturnPct, 1200) + Dollars(monthlyAdd)

RECURSIVE GrowMonths(_, _, _, _)
\* n iterations of for (let m = 0; m < 12; m++)
GrowMonths(balance, annualReturnPct, monthlyAdd, n) ==
    IF n = 0 THEN balance
    ELSE GrowMonths(GrowMonth(balance, annualReturnPct, monthlyAdd),
                    annualReturnPct, monthlyAdd, n - 1)

RECURSIVE SimulateMonths(_, _, _, _, _, _)
\* n months of runSimulation: avgReturn and stdDev in units of 0.0001;
\* randomReturn = avgReturn + stdDev * (Math.random() * 2 - 1) and
\* bal = bal * (1 + randomReturn / 12) + monthlyAdd
SimulateMonths(bal, r, n, avgReturn, stdDev, monthlyAdd) ==
    IF n = 0 THEN [bal |-> bal, random |-> r]
    ELSE LET r2 == NextRandom(r)
             randomReturn == avgReturn
                + (stdDev * (2 * RandomValue(r2) - RandomResolution))
                    \div RandomResolution
         IN  SimulateMonths(bal + MulDivRound(bal, randomReturn, 120000)
                                + Dollars(monthlyAdd),
                            r2, n - 1, avgReturn, stdDev, monthlyAdd)

RECURSIVE SimulateYears(_, _, _, _, _, _)
\* the years year..years of runSimulation
SimulateYears(st, year, p, avgReturn, stdDev, results) ==
    IF ~Geq(p.years, year) THEN [results |-> results, random |-> st.random]
    ELSE LET after == SimulateMonths(st.bal, st.random, 12, avgReturn, stdDev,
                                     p.monthlyAdd)
         IN  SimulateYears(after, year + 1, p, avgReturn, stdDev,
                           Append(results, RoundCents(after.bal)))

\* runSimulation(avgReturn, stdDev), with the generator's state before and after
RunSimulation(avgReturn, stdDev, p, r) ==
    SimulateYears([bal |-> Dollars(p.currentBalance), random |-> r], 1, p,
                  avgReturn, stdDev, <<>>)

\* an array element: a number, or undefined when read past the end
Defined(v) == [defined |-> TRUE, v |-> v]

UndefinedElement == [defined |-> FALSE, v |-> 0]

RECURSIVE SortNumbers(_)
\* the numbers of values in ascending order
SortNumbers(values) ==
    IF values = <<>> THEN <<>>
    ELSE LET rest == SortNumbers(Tail(values))
             x == Head(values)
         IN  SelectSeq(rest, LAMBDA e : e.v < x.v) \o <<x>>
             \o SelectSeq(rest, LAMBDA e : e.v >= x.v)

\* sort((a, b) => a - b): undefined elements go to the end and are not
\* passed to the comparison
SortAscending(values) ==
    SortNumbers(SelectSeq(values, LAMBDA e : e.defined))
    \o SelectSeq(values, LAMBDA e : ~e.defined)

\* runs.map(r => r[yearIdx])
ValuesOfYear(runs, yearIdx) ==
    [i \in 1..Len(runs) |->
        IF yearIdx + 1 <= Len(runs[i]) THEN Defined(runs[i][yearIdx + 1])
        ELSE UndefinedElement]

\* const values = runs.map(r => r[yearIdx]).sort((a, b) => a - b)
ValuesSorted(runs, yearIdx) == SortAscending(ValuesOfYear(runs, yearIdx))

\* the element one place before the one getPercentile reads
GetPercentileBelow(runs, yearIdx, pct) ==
    LET values == ValuesSorted(runs, yearIdx)
        idx == (Len(values) * pct) \div 100
    IN  values[idx]

\* getPercentile(runs, yearIdx, pct), pct given in percents
GetPercentile(runs, yearIdx, pct) ==
    LET values == ValuesSorted(runs, yearIdx)
        idx == (Len(values) * pct) \div 100
    IN  values[idx + 1]

\* low, mid and high of one profile
Percentiles(runs, y) ==
    [low |-> GetPercentile(runs, y, 10), mid |-> GetPercentile(runs, y, 50),
     high |-> GetPercentile(runs, y, 90)]

\* the request bodies followed, with the user's investments
GrowthBodies ==
    [years : {YearsNum(n, 1) : n \in 1..MaxYears} \cup {YearsNum(3, 2)},
     annualReturn : {Undefined, Num(-50), Num(100)},
     initialBalance : {Undefined, Num(1000)},
     monthlyContribution : {Undefined, Num(100)},
     investments : {<<>>, <<[currentValue |-> 400, monthlyContribution |-> 20],
                            [currentValue |-> 100, monthlyContribution |-> 5]>>}]

NoRuns == [conservative |-> <<>>, moderate |-> <<>>, aggressive |-> <<>>]

GrowthInit ==
    /\ igPc = "request"
    /\ igBody \in GrowthBodies
    /\ igParams = <<>>
    /\ igIndex = 0
    /\ igBalance = 0
    /\ igTotalContributions = 0
    /\ igProjection = <<>>
    /\ igRandom \in 0..MaxSeed
    /\ igRuns = NoRuns
    /\ igMonteCarlo = <<>>
    /\ NonGrowthIdle

\* lines 112-142: the parameters are read and the loop variables set
GrowthParams ==
    /\ igPc = "request"
    /\ igPc' = "projection"
    /\ igParams' = [years |-> YearsOf(igBody.years),
                    annualReturnPct |-> AnnualReturnPctOf(igBody.annualReturn),
                    currentBalance |-> CurrentBalanceOf(igBody),
                    monthlyAdd |-> MonthlyAddOf(igBody)]
    /\ igBalance' = Dollars(CurrentBalanceOf(igBody))
    /\ igTotalContributions' = InitialContributions(CurrentBalanceOf(igBody))
    /\ igIndex' = 1
    /\ UNCHANGED <<igBody, igProjection, igRandom, igRuns, igMonteCarlo, nonGrowthVars>>

\* one iteration of for (let year = 1; year <= years; year++), lines 144-155
GrowthYear ==
    /\ igPc = "projection"
    /\ Geq(igParams.years, igIndex)
    /\ LET balance == GrowMonths(igBalance, igParams.annualReturnPct,
                                 igParams.monthlyAdd, 12)
           totalContributions == igTotalContributions + 12 * Dollars(igParams.monthlyAdd)
       IN  /\ igBalance' = balance
           /\ igTotalContributions' = totalContributions
           /\ igProjection' = Append(igProjection,
                [year |-> igIndex,
                 balance |-> RoundCents(balance),
                 contributions |-> RoundCents(totalContributions),
                 growth |-> RoundCents(balance - totalContributions)])
    /\ igIndex' = igIndex + 1
    /\ UNCHANGED <<igPc, igBody, igParams, igRandom, igRuns, igMonteCarlo,
                   nonGrowthVars>>

\* the projection loop is left, lines 171-173
GrowthProjected ==
    /\ igPc = "projection"
    /\ ~Geq(igParams.years, igIndex)
    /\ igPc' = "trials"
    /\ igIndex' = 0
    /\ UNCHANGED <<igBody, igParams, igBalance, igTotalContributions, igProjection,
                   igRandom, igRuns, igMonteCarlo, nonGrowthVars>>

\* one iteration of for (let i = 0; i < 50; i++), lines 175-179
GrowthTrial ==
    /\ igPc = "trials"
    /\ igIndex < Trials
    /\ LET c == RunSimulation(500, 800, igParams, igRandom)
           m == RunSimulation(700, 1200, igParams, c.random)
           a == RunSimulation(1000, 1800, igParams, m.random)
       IN  /\ igRuns' = [conservative |-> Append(igRuns.conservative, c.results),
                         moderate |-> Append(igRuns.moderate, m.results),
                         aggressive |-> Append(igRuns.aggressive, a.results)]
           /\ igRandom' = a.random
    /\ igIndex' = igIndex + 1
    /\ UNCHANGED <<igPc, igBody, igParams, igBalance, igTotalContributions,
                   igProjection, igMonteCarlo, nonGrowthVars>>

\* the trial loop is left
GrowthSimulated ==
    /\ igPc = "trials"
    /\ ~(igIndex < Trials)
    /\ igPc' = "percentiles"
    /\ igIndex' = 0
    /\ UNCHANGED <<igBody, igParams, igBalance, igTotalContributions, igProjection,
                   igRandom, igRuns, igMonteCarlo, nonGrowthVars>>

\* one iteration of for (let y = 0; y < years; y++), lines 189-196
GrowthPercentiles ==
    /\ igPc = "percentiles"
    /\ Gt(igParams.years, igIndex)
    /\ igMonteCarlo' = Append(igMonteCarlo,
            [year |-> igIndex + 1,
             conservative |-> Percentiles(igRuns.conservative, igIndex),
             moderate |-> Percentiles(igRuns.moderate, igIndex),
             aggressive |-> Percentiles(igRuns.aggressive, igIndex)])
    /\ igIndex' = igIndex + 1
    /\ UNCHANGED <<igPc, igBody, igParams, igBalance, igTotalContributions,
                   igProjection, igRandom, igRuns, nonGrowthVars>>

\* res.json({ projection, monteCarlo, params }), lines 198-202
GrowthRespond ==
    /\ igPc = "percentiles"
    /\ ~Gt(igParams.years, igIndex)
    /\ igPc' = "done"
    /\ UNCHANGED <<igBody, igParams, igIndex, igBalance, igTotalContributions,
                   igProjection, igRandom, igRuns, igMonteCarlo, nonGrowthVars>>

GrowthNext ==
    \/ GrowthParams
    \/ GrowthYear
    \/ GrowthProjected
    \/ GrowthTrial
    \/ GrowthSimulated
    \/ GrowthPercentiles
    \/ GrowthRespond

GrowthSpec == GrowthInit /\ [][GrowthNext]_vars

RECURSIVE Compounded(_)
\* n applications of balance <- balance * (1 + annualReturnPct/100/12) +
\* monthlyAdd to the initial balance of the request
Compounded(n) ==
    IF n = 0 THEN Dollars(igParams.currentBalance)
    ELSE LET b == Compounded(n - 1)
         IN  b + MulDivRound(b, igParams.annualReturnPct, 1200)
               + Dollars(igParams.monthlyAdd)

\* initialBalance + 12 * y * monthlyContribution
Contributed(y) == Dollars(igParams.currentBalance) + 12 * y * Dollars(igParams.monthlyAdd)

\* C19: for integer years in 1..50 the deterministic projection has one
\* entry per year 1..years; the balance of year y is the result of 12*y
\* applications of balance <- balance*(1 + annualReturnPercent/100/12) +
\* monthlyContribution starting from the initial balance, contributions of
\* year y is the initial balance plus 12*y*monthlyContribution, and growth is
\* balance minus contributions; each is rounded to cents only in the entry.
C19_Projection ==
    (igPc # "request" /\ igParams.years.d = 1 /\ igParams.years.n \in 1..50) =>
        /\ Len(igProjection) <= igParams.years.n
        /\ igPc # "projection" => Len(igProjection) = igParams.years.n
        /\ igPc = "projection" =>
            /\ Len(igProjection) = igIndex - 1
            /\ igBalance = Compounded(12 * (igIndex - 1))
            /\ igTotalContributions = Contributed(igIndex - 1)
        /\ \A y \in 1..Len(igProjection) :
            /\ igProjection[y].year = y
            /\ igProjection[y].balance = RoundCents(Compounded(12 * y))
            /\ igProjection[y].contributions = RoundCents(Contributed(y))
            /\ igProjection[y].growth = RoundCents(Compounded(12 * y) - Contributed(y))

\* a projection over the largest number of years followed, with an initial
\* balance, contributions and a return, has been answered
C19_Witness ==
    /\ igPc = "done"
    /\ igParams.years = Rat(MaxYears, 1)
    /\ igParams.currentBalance > 0
    /\ igParams.monthlyAdd > 0
    /\ igParams.annualReturnPct > 0
    /\ igProjection[MaxYears].growth > 0

Profiles == {"conservative", "moderate", "aggressive"}

\* a <= b for two array elements: false when one of them is undefined
ElementLeq(a, b) == a.defined /\ b.defined /\ a.v <= b.v

\* C20, as claimed: for every Monte Carlo year entry and each of the three
\* profiles, low <= mid <= high, whatever the random trials gave.
C20_AsClaimed ==
    igPc \in {"percentiles", "done"} =>
        \A k \in 1..Len(igMonteCarlo) : \A p \in Profiles :
            /\ ElementLeq(igMonteCarlo[k][p].low, igMonteCarlo[k][p].mid)
            /\ ElementLeq(igMonteCarlo[k][p].mid, igMonteCarlo[k][p].high)

\* the nearest-rank percentile of n ascending values is the one of rank
\* ceil(n * pct / 100), counted from 1
NearestRankOf(n, pct) == (n * pct + 99) \div 100

\* avgReturn and stdDev of the three runSimulation calls, in units of 0.0001
ProfileAvg == [conservative |-> 500, moderate |-> 700, aggressive |-> 1000]

ProfileSpread == [conservative |-> 800, moderate |-> 1200, aggressive |-> 1800]

RECURSIVE GrownAt(_, _)
\* the balance after n months that all earn the yearly return ret
GrownAt(ret, n) ==
    IF n = 0 THEN Dollars(igParams.currentBalance)
    ELSE LET b == GrownAt(ret, n - 1)
         IN  b + MulDivRound(b, ret, 120000) + Dollars(igParams.monthlyAdd)

\* the balances the trials of profile p ended year y with
YearEndBalances(p, y) == [i \in 1..Len(igRuns[p]) |-> igRuns[p][i][y]]

\* e is the rank-th smallest of values, counted from 1
IsRankValue(values, rank, e) ==
    /\ e.defined
    /\ \E i \in 1..Len(values) : values[i] = e.v
    /\ Cardinality({i \in 1..Len(values) : values[i] < e.v}) < rank
    /\ rank <= Cardinality({i \in 1..Len(values) : values[i] <= e.v})

\* the years every trial simulated: year = 1, 2, ... while year <= years
SimulatedYears == igParams.years.n \div igParams.years.d

\* every profile has run exactly 50 trials, each of them year by year with
\* monthly returns avg/12 + spread/12*u, u in [-1,1)
TrialsAsClaimed ==
    \A p \in Profiles :
        /\ Len(igRuns[p]) = 50
        /\ \A i \in 1..Len(igRuns[p]) :
            /\ Len(igRuns[p][i]) = SimulatedYears
            /\ \A y \in 1..SimulatedYears :
                /\ igRuns[p][i][y] >=
                     RoundCents(GrownAt(ProfileAvg[p] - ProfileSpread[p], 12 * y))
                /\ igRuns[p][i][y] <=
                     RoundCents(GrownAt(ProfileAvg[p] + ProfileSpread[p], 12 * y))

CalculateHealthScore(input) ==
    LET rates == [savingsRate |-> SavingsRate(input),
                  dti |-> Dti(input),
                  emergencyMonths |-> EmergencyMonths(input),
                  investmentRate |-> InvestmentRate(input)]
        sc == [savingsScore |-> SavingsScore(rates.savingsRate),
               dtiScore |-> DtiScore(rates.dti),
               emergencyScore |-> EmergencyScore(rates.emergencyMonths),
               investmentScore |-> InvestmentScore(rates.investmentRate),
               utilizationScore |-> UtilizationScore(input.creditUtilization)]
        overall == [overallScore |-> OverallScore(sc),
                    grade |-> Grade(OverallScore(sc))]
    IN  HealthResult(rates, sc, overall,
                     Recommendations(rates, input.creditUtilization),
                     input.creditUtilization)

RECURSIVE ProjectYears(_, _, _, _, _)
\* for (let year = 1; year <= years; year++) of lines 144-155, from year on
ProjectYears(p, year, balance, totalContributions, projection) ==
    IF ~Geq(p.years, year) THEN projection
    ELSE LET b == GrowMonths(balance, p.annualReturnPct, p.monthlyAdd, 12)
             t == totalContributions + 12 * Dollars(p.monthlyAdd)
         IN  ProjectYears(p, year + 1, b, t,
                Append(projection,
                       [year |-> year,
                        balance |-> RoundCents(b),
                        contributions |-> RoundCents(t),
                        growth |-> RoundCents(b - t)]))

\* the deterministic projection, lines 138-155 of projections.ts
Project(p) ==
    ProjectYears(p, 1, Dollars(p.currentBalance),
                 InitialContributions(p.currentBalance), <<>>)

\* inputs the projection is called with
ProjectInputs ==
    <<[years |-> Rat(1, 1), annualReturnPct |-> 7, currentBalance |-> 1000,
       monthlyAdd |-> 100],
      [years |-> Rat(2, 1), annualReturnPct |-> 7, currentBalance |-> 1000,
       monthlyAdd |-> 100],
      [years |-> Rat(2, 1), annualReturnPct |-> -50, currentBalance |-> 1000,
       monthlyAdd |-> 0]>>

\* inputs calculateHealthScore is called with
ScoreInputs ==
    <<[monthlyIncome |-> 5000, monthlyExpenses |-> 4000, totalDebt |-> 21600,
       totalAssets |-> 0, totalInvestments |-> 15000,
       emergencyFundBalance |-> 12000, creditUtilization |-> 31],
      [monthlyIncome |-> 0, monthlyExpenses |-> 2500, totalDebt |-> 7200,
       totalAssets |-> 0, totalInvestments |-> 0,
       emergencyFundBalance |-> 4000, creditUtilization |-> 90],
      [monthlyIncome |-> 3000, monthlyExpenses |-> 0, totalDebt |-> 0,
       totalAssets |-> 0, totalInvestments |-> 60000,
       emergencyFundBalance |-> 24000, creditUtilization |-> 0]>>

\* no call remembered
NoInvocation ==
    [fn |-> "none", input |-> 0, projection |-> <<>>, score |-> {}, moved |-> FALSE]

PureInit ==
    /\ puRandom \in 0..MaxSeed
    /\ puFirst = NoInvocation
    /\ puFirstRandom = 0
    /\ puLast = NoInvocation
    /\ NonPureIdle

\* the first call made is remembered, every later one is the latest; moved
\* tells whether Math.random() was drawn from since the first call
Remember(call) ==
    IF puFirst = NoInvocation
    THEN puFirst' = call /\ puFirstRandom' = puRandom /\ puLast' = puLast
    ELSE /\ puLast' = [call EXCEPT !.moved = puRandom # puFirstRandom]
         /\ UNCHANGED <<puFirst, puFirstRandom>>

\* the deterministic projection is run on an input
PureProject ==
    /\ \E i \in 1..Len(ProjectInputs) :
        Remember([fn |-> "project", input |-> i,
                  projection |-> Project(ProjectInputs[i]), score |-> {},
                  moved |-> FALSE])
    /\ UNCHANGED <<puRandom, nonPureVars>>

\* calculateHealthScore is run on an input
PureScore ==
    /\ \E i \in 1..Len(ScoreInputs) :
        Remember([fn |-> "score", input |-> i, projection |-> <<>>,
                  score |-> {CalculateHealthScore(ScoreInputs[i])},
                  moved |-> FALSE])
    /\ UNCHANGED <<puRandom, nonPureVars>>

\* another call in between: runSimulation of a request over two years draws
\* from Math.random()
PureSimulate ==
    /\ puRandom' = RunSimulation(500, 800, ProjectInputs[2], puRandom).random
    /\ UNCHANGED <<puFirst, puFirstRandom, puLast, nonPureVars>>

PureNext == PureProject \/ PureScore \/ PureSimulate

PureSpec == PureInit /\ [][PureNext]_vars

\* the latest call repeats the remembered one
Repeated ==
    /\ puFirst # NoInvocation
    /\ puLast.fn = puFirst.fn
    /\ puLast.input = puFirst.input

MaxLogins == 2

MaxClock == 4

\* new AccountLockoutTracker(5, 15)
maxAttempts == 5

lockoutMinutes == 15

\* the clock advances in steps of the tracker's cleanup interval
MinutesPerTick == 5

lockoutDuration == lockoutMinutes \div MinutesPerTick

LoginRequests == 1..MaxLogins

\* this.attempts.get(email) of an email without entry
NoEntry == [present |-> FALSE, count |-> 0, lockedUntil |-> -1]

\* isLocked(email).locked
IsLocked(entry, now) ==
    /\ entry.present
    /\ entry.lockedUntil # -1
    /\ ~(now > entry.lockedUntil)

\* the map after isLocked(email): an entry whose lockout has passed is deleted
AfterIsLocked(entry, now) ==
    IF entry.present /\ entry.lockedUntil # -1 /\ now > entry.lockedUntil
    THEN NoEntry ELSE entry

\* the map after recordFailedAttempt(email)
RecordFailedAttempt(entry, now) ==
    LET count == (IF entry.present THEN entry.count ELSE 0) + 1
        lockedUntil == IF entry.present THEN entry.lockedUntil ELSE -1
    IN  IF count >= maxAttempts
        THEN [present |-> TRUE, count |-> count, lockedUntil |-> now + lockoutDuration]
        ELSE [present |-> TRUE, count |-> count, lockedUntil |-> lockedUntil]

\* the map after clearAttempts(email)
ClearAttempts(entry) == NoEntry

\* a handler that is not running
NoLogin == [pc |-> "idle", valid |-> FALSE]

LoginInit ==
    /\ lkUser \in BOOLEAN
    /\ lkAttempts = NoEntry
    /\ lkNow = 0
    /\ lkRequests = [r \in LoginRequests |-> NoLogin]
    /\ lkComparedLocked = FALSE
    /\ lkSucceededLocked = FALSE
    /\ NonLoginIdle

\* lines 344-362: a request with a well-formed body arrives, the lockout is
\* checked, and either 423 is answered or prisma.user.findUnique is awaited;
\* valid tells whether the password is the user's
LoginArrives(r) ==
    /\ lkRequests[r].pc = "idle"
    /\ \E valid \in BOOLEAN :
        lkRequests' = [lkRequests EXCEPT ![r] =
            IF IsLocked(lkAttempts, lkNow) THEN NoLogin
            ELSE [pc |-> "findUnique", valid |-> valid]]
    /\ lkAttempts' = AfterIsLocked(lkAttempts, lkNow)
    /\ UNCHANGED <<lkUser, lkNow, lkComparedLocked, lkSucceededLocked, nonLoginVars>>

\* lines 362-369: findUnique has answered; without a user the failure is
\* recorded and 401 answered, with one bcrypt.compare is called and awaited
LoginUserRead(r) ==
    /\ lkRequests[r].pc = "findUnique"
    /\ IF lkUser
       THEN /\ lkRequests' = [lkRequests EXCEPT ![r].pc = "compare"]
            /\ lkComparedLocked' = (lkComparedLocked \/ IsLocked(lkAttempts, lkNow))
            /\ UNCHANGED lkAttempts
       ELSE /\ lkRequests' = [lkRequests EXCEPT ![r] = NoLogin]
            /\ lkAttempts' = RecordFailedAttempt(lkAttempts, lkNow)
            /\ UNCHANGED lkComparedLocked
    /\ UNCHANGED <<lkUser, lkNow, lkSucceededLocked, nonLoginVars>>

\* lines 370-394: bcrypt.compare has answered; a wrong password is recorded
\* and answered 401 or 423, a right one clears the entry and logs the user in
LoginCompared(r) ==
    /\ lkRequests[r].pc = "compare"
    /\ IF lkRequests[r].valid
       THEN /\ lkAttempts' = ClearAttempts(lkAttempts)
            /\ lkSucceededLocked' = (lkSucceededLocked \/ IsLocked(lkAttempts, lkNow))
       ELSE /\ lkAttempts' = RecordFailedAttempt(lkAttempts, lkNow)
            /\ UNCHANGED lkSucceededLocked
    /\ lkRequests' = [lkRequests EXCEPT ![r] = NoLogin]
    /\ UNCHANGED <<lkUser, lkNow, lkComparedLocked, nonLoginVars>>

\* the tracker's setInterval callback
LockoutCleanup ==
    /\ lkAttempts' = AfterIsLocked(lkAttempts, lkNow)
    /\ lkAttempts' # lkAttempts
    /\ UNCHANGED <<lkUser, lkNow, lkRequests, lkComparedLocked, lkSucceededLocked,
                   nonLoginVars>>

\* time passes
LoginTick ==
    /\ lkNow < MaxClock
    /\ lkNow' = lkNow + 1
    /\ UNCHANGED <<lkUser, lkAttempts, lkRequests, lkComparedLocked,
                   lkSucceededLocked, nonLoginVars>>

LoginNext ==
    \/ \E r \in LoginRequests : LoginArrives(r)
    \/ \E r \in LoginRequests : LoginUserRead(r)
    \/ \E r \in LoginRequests : LoginCompared(r)
    \/ LockoutCleanup
    \/ LoginTick

LoginSpec == LoginInit /\ [][LoginNext]_vars

\* C23, as claimed: under any interleaving of login requests, once 5
\* consecutive failures are recorded for the email no login for it succeeds
\* and no further password is compared until the 15 minutes have passed.
C23_AsClaimed == ~lkComparedLocked /\ ~lkSucceededLocked

\* ---------------------------------------------------------------------
\* Transactions and the account balance: routes/transactions.ts and
\* POST /api/import/csv
\* ---------------------------------------------------------------------

MaxTx == 2

MaxOps == 3

\* balances the account is created with, in dollars
OpeningBalances == {0, 100}

\* amounts of the request bodies and of the CSV rows, in dollars
TxAmounts == {10, 25}

TxIds == 1..MaxTx

TxHandlerNames == {"h1", "h2"}

NoRow == [present |-> FALSE, amount |-> 0]

NoHandler == [pc |-> "idle", id |-> 0, existing |-> 0, amount |-> 0]

RECURSIVE StoredSum(_, _)
\* the sum of the amounts of the rows 1..n that are stored
StoredSum(stored, n) ==
    IF n = 0 THEN 0
    ELSE StoredSum(stored, n - 1) + (IF stored[n].present THEN stored[n].amount ELSE 0)

TxInit ==
    /\ txOpening \in OpeningBalances
    /\ txBalance = txOpening
    /\ txStored = [i \in TxIds |-> NoRow]
    /\ txCreated = 0
    /\ txStarted = 0
    /\ txHandlers = [h \in TxHandlerNames |-> NoHandler]
    /\ NonTxIdle

\* POST /api/transactions, lines 68-110: the row is created and the balance
\* incremented in one prisma.$transaction
TxCreate(h) ==
    /\ txHandlers[h].pc = "idle"
    /\ txStarted < MaxOps
    /\ txCreated < MaxTx
    /\ \E amount \in TxAmounts :
        /\ txStored' = [txStored EXCEPT ![txCreated + 1] =
                            [present |-> TRUE, amount |-> amount]]
        /\ txBalance' = txBalance + amount
    /\ txCreated' = txCreated + 1
    /\ txStarted' = txStarted + 1
    /\ UNCHANGED <<txOpening, txHandlers, nonTxVars>>

\* PUT /api/transactions/:id, lines 112-119: existing is read and awaited
TxUpdateRead(h) ==
    /\ txHandlers[h].pc = "idle"
    /\ txStarted < MaxOps
    /\ \E id \in TxIds : \E amount \in TxAmounts :
        /\ txStored[id].present
        /\ txHandlers' = [txHandlers EXCEPT ![h] =
                [pc |-> "update", id |-> id, existing |-> txStored[id].amount,
                 amount |-> amount]]
    /\ txStarted' = txStarted + 1
    /\ UNCHANGED <<txOpening, txBalance, txStored, txCreated, nonTxVars>>

\* lines 136-161: the row is updated, and when the amount differs from the
\* one read the balance is incremented by the difference in the same
\* prisma.$transaction; updating a row that is gone fails and changes nothing
TxUpdateWrite(h) ==
    LET req == txHandlers[h]
    IN  /\ req.pc = "update"
        /\ IF ~txStored[req.id].present
           THEN UNCHANGED <<txStored, txBalance>>
           ELSE /\ txStored' = [txStored EXCEPT ![req.id].amount = req.amount]
                /\ txBalance' = IF req.amount # req.existing
                                THEN txBalance + (req.amount - req.existing)
                                ELSE txBalance
        /\ txHandlers' = [txHandlers EXCEPT ![h] = NoHandler]
        /\ UNCHANGED <<txOpening, txCreated, txStarted, nonTxVars>>

\* DELETE /api/transactions/:id, lines 164-169: existing is read and awaited
TxDeleteRead(h) ==
    /\ txHandlers[h].pc = "idle"
    /\ txStarted < MaxOps
    /\ \E id \in TxIds :
        /\ txStored[id].present
        /\ txHandlers' = [txHandlers EXCEPT ![h] =
                [pc |-> "delete", id |-> id, existing |-> txStored[id].amount,
                 amount |-> 0]]
    /\ txStarted' = txStarted + 1
    /\ UNCHANGED <<txOpening, txBalance, txStored, txCreated, nonTxVars>>

\* lines 171-179: the row is deleted and the balance decremented by the
\* amount read, in one prisma.$transaction; deleting a row that is gone fails
\* and changes nothing
TxDeleteWrite(h) ==
    LET req == txHandlers[h]
    IN  /\ req.pc = "delete"
        /\ IF ~txStored[req.id].present
           THEN UNCHANGED <<txStored, txBalance>>
           ELSE /\ txStored' = [txStored EXCEPT ![req.id] = NoRow]
                /\ txBalance' = txBalance - req.existing
        /\ txHandlers' = [txHandlers EXCEPT ![h] = NoHandler]
        /\ UNCHANGED <<txOpening, txCreated, txStarted, nonTxVars>>

\* POST /api/import/csv, line 209: createMany of one valid row, awaited
TxImportRows(h) ==
    /\ txHandlers[h].pc = "idle"
    /\ txStarted < MaxOps
    /\ txCreated < MaxTx
    /\ \E amount \in TxAmounts :
        /\ txStored' = [txStored EXCEPT ![txCreated + 1] =
                            [present |-> TRUE, amount |-> amount]]
        /\ txHandlers' = [txHandlers EXCEPT ![h] =
                [pc |-> "import", id |-> 0, existing |-> 0, amount |-> amount]]
    /\ txCreated' = txCreated + 1
    /\ txStarted' = txStarted + 1
    /\ UNCHANGED <<txOpening, txBalance, nonTxVars>>

\* lines 212-216: the balance is incremented by balanceDelta
TxImportBalance(h) ==
    /\ txHandlers[h].pc = "import"
    /\ txBalance' = txBalance + txHandlers[h].amount
    /\ txHandlers' = [txHandlers EXCEPT ![h] = NoHandler]
    /\ UNCHANGED <<txOpening, txStored, txCreated, txStarted, nonTxVars>>

TxNext ==
    \/ \E h \in TxHandlerNames : TxCreate(h)
    \/ \E h \in TxHandlerNames : TxUpdateRead(h)
    \/ \E h \in TxHandlerNames : TxUpdateWrite(h)
    \/ \E h \in TxHandlerNames : TxDeleteRead(h)
    \/ \E h \in TxHandlerNames : TxDeleteWrite(h)
    \/ \E h \in TxHandlerNames : TxImportRows(h)
    \/ \E h \in TxHandlerNames : TxImportBalance(h)

TxSpec == TxInit /\ [][TxNext]_vars

\* the balance is the opening balance plus the stored amounts
BalanceMatches == txBalance = txOpening + StoredSum(txStored, MaxTx)

\* no request is in flight
TxQuiescent == \A h \in TxHandlerNames : txHandlers[h].pc = "idle"

\* C24, as claimed: after any sequence and any interleaving of transaction
\* create, update and delete requests and CSV imports, the account's balance
\* is its balance at creation plus the sum of the amounts of the stored
\* transactions, every balance change being atomic with the transaction
\* change that causes it.
C24_AsClaimed ==
    /\ TxQuiescent => BalanceMatches
    /\ ~TxQuiescent => BalanceMatches

\* ---------------------------------------------------------------------
\* API keys: session, apiKeyAuth, csrfProtection and requireAuth
\* ---------------------------------------------------------------------

\* a session without data: what express-session hands to a request that
\* carries no cookie of a stored session
EmptySession == [userId |-> FALSE, csrfToken |-> FALSE]

Methods == {"GET", "HEAD", "POST", "PUT", "DELETE"}

\* the requests the client can send: with or without the X-API-Key header,
\* with or without the cookie it holds, and with no, a wrong or the
\* session's X-CSRF-Token header
ApiRequests ==
    {q \in [method : Methods, key : BOOLEAN, cookie : BOOLEAN,
            csrf : {"none", "wrong", "right"}] :
        /\ q.cookie => akCookie
        /\ q.csrf = "right" => (q.cookie /\ akCsrfKnown)}

\* req.session as the session middleware sets it up, lines 114-127 of index.ts
LoadedSession(q) == IF q.cookie THEN akStore ELSE EmptySession

\* permissions.includes(p)
Includes(permissions, p) == \E i \in 1..Len(permissions) : permissions[i] = p

\* hasWritePermission, line 47 of apiKeyAuth.ts
HasWritePermission(permissions) ==
    Includes(permissions, "write") \/ Includes(permissions, "admin")

\* apiKeyAuth: the status it answers with, or 0 when it calls next(), and
\* the session it leaves
ApiKeyAuth(q, session) ==
    IF ~q.key THEN [status |-> 0, session |-> session]
    ELSE IF ~akActive THEN [status |-> 401, session |-> session]
    ELSE IF ~(q.method \in {"GET", "HEAD"}) /\ ~HasWritePermission(akPermissions)
         THEN [status |-> 403, session |-> session]
    ELSE [status |-> 0, session |-> [session EXCEPT !.userId = TRUE]]

\* csrfProtection: the status it answers with, or 0 when it calls next(),
\* the session it leaves, and whether X-CSRF-Token was set on the response
CsrfProtection(q, session) ==
    IF q.key THEN [status |-> 0, session |-> session, exposed |-> FALSE]
    ELSE LET s == [session EXCEPT !.csrfToken = TRUE]
             \* a header can only equal a token that existed before the request
             matches == q.csrf = "right" /\ session.csrfToken
         IN  IF q.method \in {"GET", "HEAD", "OPTIONS"} \/ matches
             THEN [status |-> 0, session |-> s, exposed |-> TRUE]
             ELSE [status |-> 403, session |-> s, exposed |-> TRUE]

\* requireAuth of the route: 401 without session.userId, else the handler runs
RequireAuth(session) == IF session.userId THEN 200 ELSE 401

\* the whole stack for one request
Served(q) ==
    LET loaded == LoadedSession(q)
        a == ApiKeyAuth(q, loaded)
        c == CsrfProtection(q, a.session)
    IN  IF a.status # 0
        THEN [status |-> a.status, session |-> a.session, exposed |-> FALSE]
        ELSE IF c.status # 0 THEN c
        ELSE [status |-> RequireAuth(c.session), session |-> c.session,
              exposed |-> c.exposed]

NoApiRequest == [method |-> "none", key |-> FALSE, status |-> 0]

ApiKeyInit ==
    /\ akPermissions \in {<<"read">>, <<"write">>, <<"read", "write">>}
    /\ akActive = TRUE
    /\ akStore = EmptySession
    /\ akCookie = FALSE
    /\ akCsrfKnown = FALSE
    /\ akLast = NoApiRequest
    /\ NonApiKeyIdle

\* one request of the client through session, apiKeyAuth, csrfProtection
\* and the route's requireAuth; a session that was modified is saved and,
\* when it is a new one, its cookie replaces the client's
ApiRequest ==
    \E q \in ApiRequests :
        LET r == Served(q)
            modified == r.session # LoadedSession(q)
        IN  /\ akLast' = [method |-> q.method, key |-> q.key, status |-> r.status]
            /\ akStore' = IF modified THEN r.session ELSE akStore
            /\ akCookie' = (akCookie \/ modified)
            /\ akCsrfKnown' =
                 IF modified /\ ~q.cookie THEN r.exposed
                 ELSE IF q.cookie \/ modified THEN (akCsrfKnown \/ r.exposed)
                 ELSE akCsrfKnown
            /\ UNCHANGED <<akPermissions, akActive, nonApiKeyVars>>

\* DELETE /api/api-keys/:id by the key's owner, or the key's expiry
ApiKeyRevoked ==
    /\ akActive
    /\ akActive' = FALSE
    /\ UNCHANGED <<akPermissions, akStore, akCookie, akCsrfKnown, akLast,
                   nonApiKeyVars>>

\* the session's cookie reaches its maxAge
SessionExpires ==
    /\ akCookie
    /\ akCookie' = FALSE
    /\ akStore' = EmptySession
    /\ akCsrfKnown' = FALSE
    /\ UNCHANGED <<akPermissions, akActive, akLast, nonApiKeyVars>>

ApiKeyNext == ApiRequest \/ ApiKeyRevoked \/ SessionExpires

ApiKeySpec == ApiKeyInit /\ [][ApiKeyNext]_vars

\* C25, as claimed: a client that authenticates only with an API key whose
\* permissions are read never gets a POST, PUT or DELETE request accepted by
\* a route handler, whatever requests it sent before, requests that reuse
\* the session cookie included.
C25_AsClaimed ==
    akPermissions = <<"read">> =>
        ~(akLast.method \in {"POST", "PUT", "DELETE"} /\ akLast.status = 200)

\* ---------------------------------------------------------------------
\* RateLimiterStore.check
\* ---------------------------------------------------------------------

MaxChecks == 4

MaxTime == 4

RateKeys == {"auth:10.0.0.1:a@example.com", "auth:10.0.0.2:a@example.com"}

\* configurations of the limiter: the window in ticks, and maxRequests
RateConfigs == [windowMs : {2}, maxRequests : {1, 2}]

NoRateEntry == [present |-> FALSE, count |-> 0, resetAt |-> 0]

\* the window is also left at resetAt itself
NewWindowAtResetAt(entry, now) == ~entry.present \/ now >= entry.resetAt

\* !entry || now > entry.resetAt
NewWindow(entry, now) == ~entry.present \/ now > entry.resetAt

\* check(key, config), lines 27-44: the entry of the key afterwards and the
\* object returned
Check(entry, now, config) ==
    IF NewWindow(entry, now)
    THEN [entry |-> [present |-> TRUE, count |-> 1,
                     resetAt |-> now + config.windowMs],
          result |-> [allowed |-> TRUE, remaining |-> config.maxRequests - 1,
                      resetAt |-> now + config.windowMs]]
    ELSE LET count == entry.count + 1
         IN  [entry |-> [entry EXCEPT !.count = count],
              result |-> [allowed |-> count <= config.maxRequests,
                          remaining |-> Max(0, config.maxRequests - count),
                          resetAt |-> entry.resetAt]]

RateInit ==
    /\ rlConfig \in RateConfigs
    /\ rlEntries = [k \in RateKeys |-> NoRateEntry]
    /\ rlNow = 0
    /\ rlLog = <<>>
    /\ NonRateIdle

\* authRateLimit, lines 97-120: a request of a client is checked
RateCheck ==
    /\ Len(rlLog) < MaxChecks
    /\ \E k \in RateKeys :
        LET c == Check(rlEntries[k], rlNow, rlConfig)
        IN  /\ rlEntries' = [rlEntries EXCEPT ![k] = c.entry]
            /\ rlLog' = Append(rlLog, [key |-> k, now |-> rlNow, result |-> c.result])
    /\ UNCHANGED <<rlConfig, rlNow, nonRateVars>>

\* cleanup(), lines 46-51, run by the store's interval
RateCleanup ==
    /\ rlEntries' = [k \in RateKeys |->
            IF rlEntries[k].present /\ rlNow > rlEntries[k].resetAt
            THEN NoRateEntry ELSE rlEntries[k]]
    /\ rlEntries' # rlEntries
    /\ UNCHANGED <<rlConfig, rlNow, rlLog, nonRateVars>>

\* time passes
RateTick ==
    /\ rlNow < MaxTime
    /\ rlNow' = rlNow + 1
    /\ UNCHANGED <<rlConfig, rlEntries, rlLog, nonRateVars>>

RateNext == RateCheck \/ RateCleanup \/ RateTick

RateSpec == RateInit /\ [][RateNext]_vars

\* the check before check i that was made for the same key, 0 if there is none
PreviousOfKey(i) ==
    LET earlier == {j \in 1..(i - 1) : rlLog[j].key = rlLog[i].key}
    IN  IF earlier = {} THEN 0 ELSE CHOOSE j \in earlier : \A l \in earlier : l <= j

RECURSIVE WindowOf(_)
\* the fixed window check i falls into, told from the times of the checks
\* alone: when it started and which request of the window check i is.  The
\* first check of a key starts a window, and so does a check that arrives
\* after the end, start + windowMs, of the window of the check before it
WindowOf(i) ==
    LET p == PreviousOfKey(i)
    IN  IF p = 0 THEN [start |-> rlLog[i].now, nth |-> 1]
        ELSE LET w == WindowOf(p)
             IN  IF rlLog[i].now > w.start + rlConfig.windowMs
                 THEN [start |-> rlLog[i].now, nth |-> 1]
                 ELSE [start |-> w.start, nth |-> w.nth + 1]

\* the checks of the key and window of check i that were allowed
AllowedInWindowOf(i) ==
    {j \in 1..Len(rlLog) :
        /\ rlLog[j].key = rlLog[i].key
        /\ WindowOf(j).start = WindowOf(i).start
        /\ rlLog[j].result.allowed}

AllPaidOff == \A i \in 1..Len(debts) : balances[debts[i].id] <= Eps

\* the entries of debtPayoffOrder for the debt with this id
OrderEntriesOf(id) == {k \in 1..Len(payoffOrder) : payoffOrder[k].id = id}

\* the debts of the input whose balance exceeded 0.01
InputOutstanding == {i \in 1..Len(debts) : debts[i].balance > Eps}

\* C27: when calculatePayoff ends with every working balance <= 0.01,
\* debtPayoffOrder holds exactly one entry for each debt whose input balance
\* exceeded 0.01 and none for the others, and months is the largest
\* payoffMonth in it (months = 0 with an empty schedule and an empty order
\* when no input balance exceeded 0.01); in every case the schedule has
\* exactly months entries, numbered 1..months.
C27_PayoffOrderComplete ==
    pc = "done" =>
        /\ Len(schedule) = month
        /\ \A k \in 1..Len(schedule) : schedule[k].month = k
        /\ AllPaidOff =>
            /\ \A i \in 1..Len(debts) :
                Cardinality(OrderEntriesOf(debts[i].id)) =
                    (IF i \in InputOutstanding THEN 1 ELSE 0)
            /\ Len(payoffOrder) = Cardinality(InputOutstanding)
            /\ \A k \in 1..Len(payoffOrder) : payoffOrder[k].payoffMonth <= month
            /\ InputOutstanding # {} =>
                \E k \in 1..Len(payoffOrder) : payoffOrder[k].payoffMonth = month
            /\ InputOutstanding = {} =>
                month = 0 /\ schedule = <<>> /\ payoffOrder = <<>>

\* a call has ended with all of three debts paid off in different months,
\* one of them at a balance <= 0.01 from the start
C27_Witness ==
    /\ pc = "done"
    /\ AllPaidOff
    /\ Len(debts) = 3
    /\ Cardinality(InputOutstanding) = 2
    /\ payoffOrder[1].payoffMonth < payoffOrder[2].payoffMonth

CustomIds == {IdUndefined, IdText(""), IdText("a"), IdText("b"), IdNum(0), IdNum(7)}

\* two custom debts with these ids
CustomPair(first, second) ==
    <<[id |-> first, balance |-> Num(Dollars(300)), rate |-> Num(12),
       minimum |-> Num(Dollars(100))],
      [id |-> second, balance |-> Num(Dollars(200)), rate |-> Num(24),
       minimum |-> Num(Dollars(50))]>>

CustomInit ==
    /\ cdItems \in {CustomPair(first, second) : first \in CustomIds, second \in CustomIds}
    /\ cdStrategy \in Strategies
    /\ cdExtra \in {0, Dollars(100)}
    /\ cdPc = "start"
    /\ cdRun = <<>>
    /\ NonCustomIdle

\* the route sanitizes the debts and enters calculatePayoff
CustomStart ==
    /\ cdPc = "start"
    /\ cdPc' = "loop"
    /\ cdRun' = StartRun(SanitizeDebts(cdItems), cdStrategy)
    /\ UNCHANGED <<cdItems, cdStrategy, cdExtra, nonCustomVars>>

\* one iteration of while (month < maxMonths)
CustomMonth ==
    /\ cdPc = "loop"
    /\ LoopContinues(cdRun.sorted, cdRun.balances, cdRun.month)
    /\ cdRun' = SimulateMonth(cdRun, cdExtra)
    /\ UNCHANGED <<cdItems, cdStrategy, cdExtra, cdPc, nonCustomVars>>

\* the loop is left and the result returned
CustomReturn ==
    /\ cdPc = "loop"
    /\ ~LoopContinues(cdRun.sorted, cdRun.balances, cdRun.month)
    /\ cdPc' = "done"
    /\ UNCHANGED <<cdItems, cdStrategy, cdExtra, cdRun, nonCustomVars>>

CustomNext == CustomStart \/ CustomMonth \/ CustomReturn

CustomSpec == CustomInit /\ [][CustomNext]_vars

\* the working balance the map holds for each debt of the call, added up
WorkingBalances(st) ==
    SumNum([i \in 1..Len(st.sorted) |-> st.balances[st.sorted[i].id]])

\* C29: for every list of custom debts the route passes on, ids missing or
\* repeated included, every debt starts with a working balance of its own,
\* equal to its balance, and the totalBalance of each month is the sum of
\* the working balances of all the debts after the payments of that month
C29_AsClaimed ==
    cdPc \in {"loop", "done"} =>
        /\ cdRun.month = 0 =>
                \A i \in 1..Len(cdRun.sorted) :
                    cdRun.balances[cdRun.sorted[i].id] = cdRun.sorted[i].balance
        /\ cdRun.month > 0 =>
                cdRun.schedule[cdRun.month].totalBalance = WorkingBalances(cdRun)

(***************************************************************************)
(* The arrays of the investment-growth response                            *)
(***************************************************************************)

\* values req.body.years can have: absent, not a number, negative, zero,
\* not whole, above 50
YearsInputs ==
    {YearsUndefined, YearsText, YearsNum(-3, 1), YearsNum(0, 1), YearsNum(1, 2),
     YearsNum(3, 2), YearsNum(2, 1), YearsNum(99, 2), YearsNum(101, 2), YearsNum(80, 1)}

\* the years 1..years of a response
YearsOfResponse == {k \in 1..50 : Geq(igParams.years, k)}

\* the entries of an array are those of the years 1..years, in order
OneEntryPerYear(entries) ==
    /\ Len(entries) = Cardinality(YearsOfResponse)
    /\ \A k \in 1..Len(entries) : entries[k].year = k

\* C30, as claimed: whatever years the body holds, the clamped years lies in
\* [1, 50], and the response's projection and monteCarlo arrays each have
\* exactly one entry for every year 1..years, the low, mid and high of
\* every monteCarlo entry being defined
C30_AsClaimed ==
    /\ \A raw \in YearsInputs : Geq(YearsOf(raw), 1) /\ Leq(YearsOf(raw), 50)
    /\ igPc # "request" => Geq(igParams.years, 1) /\ Leq(igParams.years, 50)
    /\ igPc = "done" =>
        /\ OneEntryPerYear(igProjection)
        /\ OneEntryPerYear(igMonteCarlo)
        /\ \A k \in 1..Len(igMonteCarlo) : \A p \in Profiles :
            /\ igMonteCarlo[k][p].low.defined
            /\ igMonteCarlo[k][p].mid.defined
            /\ igMonteCarlo[k][p].high.defined

====
